---------------------------- MODULE Spec2Model ----------------------------
(***************************************************************************)
(* ONEX userland: the virtual-path resolver, the command tokenizer and the *)
(* shell session loop of userland_fs/usr/lib/onex/userland/userland.py,    *)
(* with the application registry's run_app and the host-shell executor.    *)
(*                                                                         *)
(* A Python str is a sequence of one-character strings.  A pathlib.Path is *)
(* a record [root, parts]: root is "" (relative), "/" or "//", parts the   *)
(* sequence of its segments.                                               *)
(***************************************************************************)
EXTENDS Integers, Sequences, FiniteSets, TLC

VARIABLES
    fs_root,            \* UserLandSystem.fs_root (a Path)
    current_dir,        \* UserLandSystem.current_dir (a str)
    real_current_dir,   \* UserLandSystem.real_current_dir (a Path)
    running,            \* _main_loop's local `running`
    dirs,               \* the host filesystem: the directories that exist
    files,              \* the host filesystem: the regular files that exist
    apps,               \* AppManager.apps: name -> AppInfo
    system_apps,        \* AppManager.system_apps: name -> AppInfo
    input_line,         \* the line last returned by input()
    cmd_parts,          \* the token list of that line
    in_quotes,          \* the tokenizer's in_quotes flag at the end of the line
    handler,            \* the handler the last iteration dispatched to
    out,                \* what the last iteration printed
    virtual_path,       \* the argument of the last _virtual_to_real_path call
    real_path,          \* its result
    child,              \* the child process the last iteration spawned
    term,               \* what the last iteration did to the curses terminal
    pc,                 \* _main_loop's position: "input" before input() is
                        \* called, "dispatched" when a pass has ended; in the
                        \* browser's loop "draw" before _draw_interface and
                        \* "getch" before _handle_input
    apps_dir,           \* the directories under AppManager.apps_dir
    virtual_apps_dir,   \* the directories under AppManager.virtual_apps_dir
    system_apps_dir,    \* the files under AppManager.system_apps_dir
    launch,             \* the AppManager.run_app call of this step, if it made one
    current_virtual_dir,    \* FileManager.current_virtual_dir (a str)
    current_real_dir,   \* FileManager.current_real_dir (a Path)
    items,              \* FileManager.items
    selection,          \* FileManager.selection
    offset,             \* FileManager.offset
    screen_height,      \* FileManager.screen_height
    _is_running,        \* FileManager._is_running
    raised,             \* the exception that left FileManager._main_loop
    components,         \* SystemInitializer.components, in the order of the dict
    dependencies,       \* SystemInitializer.dependencies: name -> list of names
    initialized,        \* SystemInitializer.initialized
    init_calls,         \* the components whose initializer function was called
    init_result         \* what initialize() returned: "none" before it is called

vars == <<fs_root, current_dir, real_current_dir, running, dirs, files, apps,
          system_apps, input_line, cmd_parts, in_quotes, handler, out, virtual_path,
          real_path, child, term, pc, apps_dir, virtual_apps_dir, system_apps_dir,
          launch, current_virtual_dir, current_real_dir, items, selection, offset,
          screen_height, _is_running, raised, components, dependencies, initialized,
          init_calls, init_result>>

\* the application directories on disk, and with the launch of this step
registry_dirs == <<apps_dir, virtual_apps_dir, system_apps_dir>>

registry_vars == <<apps_dir, virtual_apps_dir, system_apps_dir, launch>>

\* the file browser
browser_vars ==
    <<current_virtual_dir, current_real_dir, items, selection, offset, screen_height,
      _is_running, raised>>

\* the system initializer
initializer_vars == <<components, dependencies, initialized, init_calls, init_result>>

-----------------------------------------------------------------------------
(* Bounds of the model *)

\* longest input line of the tokenizer specification
MaxLineLen == 5
\* most segments in the free tail of a virtual path of the resolver specification
MaxSegs == 4
\* most "/" in a current_dir the session specification lets `cd` build
MaxDirSlashes == 3
\* most directories and files the session specification lets exist at once
MaxNodes == 7

-----------------------------------------------------------------------------
(* Python str operations *)

\* len("/mnt/system"), the slice index of virtual_path[11:]
MountPrefixLen == 11

MountPrefix == <<"/", "m", "n", "t", "/", "s", "y", "s", "t", "e", "m">>

startswith(s, p) == Len(s) >= Len(p) /\ SubSeq(s, 1, Len(p)) = p

endswith(s, p) == Len(s) >= Len(p) /\ SubSeq(s, Len(s) - Len(p) + 1, Len(s)) = p

\* s[n:]
SliceFrom(s, n) == SubSeq(s, n + 1, Len(s))

isspace(c) == c \in {" ", "\t"}

RECURSIVE lstrip(_)
lstrip(s) == IF s # <<>> /\ isspace(Head(s)) THEN lstrip(Tail(s)) ELSE s

RECURSIVE rstrip(_)
rstrip(s) ==
    IF s # <<>> /\ isspace(s[Len(s)]) THEN rstrip(SubSeq(s, 1, Len(s) - 1)) ELSE s

strip(s) == rstrip(lstrip(s))

\* s.split("/"): the segments between the separators, empty ones included
RECURSIVE split(_, _)
split(s, sep) ==
    IF \E i \in 1..Len(s) : s[i] = sep
    THEN LET i == CHOOSE k \in 1..Len(s) : s[k] = sep /\ \A j \in 1..(k - 1) : s[j] # sep
         IN  <<SubSeq(s, 1, i - 1)>> \o split(SubSeq(s, i + 1, Len(s)), sep)
    ELSE <<s>>

\* "/".join(parts)
RECURSIVE join(_, _)
join(sep, parts) ==
    IF parts = <<>> THEN <<>>
    ELSE IF Len(parts) = 1 THEN parts[1]
    ELSE parts[1] \o <<sep>> \o join(sep, Tail(parts))

-----------------------------------------------------------------------------
(* pathlib.Path *)

\* Path(s): one leading slash or three and more give root "/", exactly two give
\* "//"; empty and "." segments are dropped, ".." segments are kept
Path(s) ==
    LET root == IF startswith(s, <<"/", "/">>) /\ ~startswith(s, <<"/", "/", "/">>)
                THEN "//"
                ELSE IF startswith(s, <<"/">>) THEN "/" ELSE ""
        keep(seg) == seg # <<>> /\ seg # <<".">>
    IN  [root |-> root, parts |-> SelectSeq(split(s, "/"), keep)]

\* p / s
PathJoin(p, s) ==
    LET q == Path(s)
    IN  IF q.root # "" THEN q ELSE [root |-> p.root, parts |-> p.parts \o q.parts]

\* p.parent
PathParent(p) ==
    IF p.parts = <<>> THEN p
    ELSE [root |-> p.root, parts |-> SubSeq(p.parts, 1, Len(p.parts) - 1)]

\* str(p)
PathStr(p) ==
    LET r == IF p.root = "//" THEN <<"/", "/">>
             ELSE IF p.root = "/" THEN <<"/">> ELSE <<>>
    IN  IF p.root = "" /\ p.parts = <<>> THEN <<".">> ELSE r \o join("/", p.parts)

-----------------------------------------------------------------------------
(* PathResolver: UserLandSystem._virtual_to_real_path *)

\* a variant that lets ".." climb: pushed when the stack is empty
RECURSIVE NormalizeParts_climb(_, _)
NormalizeParts_climb(segs, parts) ==
    IF segs = <<>> THEN parts
    ELSE LET part == Head(segs)
         IN  IF part = <<".", ".">>
             THEN NormalizeParts_climb(Tail(segs),
                                 IF parts # <<>> /\ parts[Len(parts)] # <<".", ".">>
                                 THEN SubSeq(parts, 1, Len(parts) - 1)
                                 ELSE Append(parts, part))
             ELSE IF part # <<>> /\ part # <<".">>
                  THEN NormalizeParts_climb(Tail(segs), Append(parts, part))
                  ELSE NormalizeParts_climb(Tail(segs), parts)

\* the loop over virtual_path.split("/"): ".." pops a non-empty stack, a
\* non-empty segment other than "." is appended
RECURSIVE NormalizeParts(_, _)
NormalizeParts(segs, parts) ==
    IF segs = <<>> THEN parts
    ELSE LET part == Head(segs)
         IN  IF part = <<".", ".">>
             THEN NormalizeParts(Tail(segs),
                                 IF parts # <<>> THEN SubSeq(parts, 1, Len(parts) - 1)
                                 ELSE parts)
             ELSE IF part # <<>> /\ part # <<".">>
                  THEN NormalizeParts(Tail(segs), Append(parts, part))
                  ELSE NormalizeParts(Tail(segs), parts)

\* the branch for "/mnt/system": the prefix is cut and the rest is a host path
MountBranch(vp) ==
    LET rel_path == SliceFrom(vp, MountPrefixLen)
    IN  IF rel_path = <<>> THEN Path(<<"/">>) ELSE Path(rel_path)

\* the branch below fs_root
RootBranch(vp, root) ==
    LET parts == NormalizeParts(split(vp, "/"), <<>>)
        norm_virtual_path == IF parts = <<>> THEN <<"/">>
                             ELSE <<"/">> \o join("/", parts)
    IN  IF norm_virtual_path = <<"/">> THEN root
        ELSE PathJoin(root, SliceFrom(norm_virtual_path, 1))

VirtualToRealPath(vp0, root) ==
    LET vp == IF vp0 = <<>> THEN <<"/">> ELSE vp0
    IN  IF startswith(vp, MountPrefix) THEN MountBranch(vp) ELSE RootBranch(vp, root)

_virtual_to_real_path(vp) == VirtualToRealPath(vp, fs_root)

\* FileManager._virtual_to_real_path: the loop over virtual_path.split("/")
RECURSIVE FileManagerParts(_, _)
FileManagerParts(segs, parts) ==
    IF segs = <<>> THEN parts
    ELSE IF Head(segs) = <<".", ".">>
    THEN FileManagerParts(Tail(segs), IF parts # <<>> THEN SubSeq(parts, 1, Len(parts) - 1)
                                      ELSE parts)
    ELSE IF Head(segs) # <<>> /\ Head(segs) # <<".">>
    THEN FileManagerParts(Tail(segs), Append(parts, Head(segs)))
    ELSE FileManagerParts(Tail(segs), parts)

\* root.joinpath(*parts)
RECURSIVE joinpath(_, _)
joinpath(root, parts) ==
    IF parts = <<>> THEN root ELSE joinpath(PathJoin(root, Head(parts)), Tail(parts))

\* a variant of the browser's resolver without the branch for "/mnt/system"
FileManager_virtual_to_real_path_nomount(vp0, root) ==
    LET vp == IF vp0 = <<>> THEN <<"/">> ELSE vp0
        parts == FileManagerParts(split(vp, "/"), <<>>)
    IN  IF parts = <<>> THEN root ELSE joinpath(root, parts)

\* FileManager._virtual_to_real_path of a browser over root
FileManager_virtual_to_real_path(vp0, root) ==
    LET vp == IF vp0 = <<>> THEN <<"/">> ELSE vp0
        rel_path == SliceFrom(vp, 11)
        parts == FileManagerParts(split(vp, "/"), <<>>)
    IN  IF startswith(vp, MountPrefix)
        THEN (IF rel_path = <<>> THEN Path(<<"/">>) ELSE Path(rel_path))
        ELSE IF parts = <<>> THEN root
        ELSE joinpath(root, parts)

-----------------------------------------------------------------------------
(* CommandTokenizer: the character loop of UserLandSystem._main_loop *)

IsQuote(c) == c \in {"\"", "'"}

\* a variant in which either quote character closes an open quote
TokenStep_anyquote(st, char) ==
    IF IsQuote(char)
    THEN IF ~st.in_quotes
         THEN [st EXCEPT !.in_quotes = TRUE, !.quote_char = char]
         ELSE [st EXCEPT !.in_quotes = FALSE, !.quote_char = ""]
    ELSE IF isspace(char) /\ ~st.in_quotes
         THEN IF st.current_part # <<>>
              THEN [st EXCEPT !.parts = Append(@, st.current_part),
                              !.current_part = <<>>]
              ELSE st
         ELSE [st EXCEPT !.current_part = Append(@, char)]

\* one pass of `for char in cmd`; st is [parts, current_part, in_quotes, quote_char]
TokenStep(st, char) ==
    IF IsQuote(char)
    THEN IF ~st.in_quotes
         THEN [st EXCEPT !.in_quotes = TRUE, !.quote_char = char]
         ELSE IF char = st.quote_char
              THEN [st EXCEPT !.in_quotes = FALSE, !.quote_char = ""]
              ELSE [st EXCEPT !.current_part = Append(@, char)]
    ELSE IF isspace(char) /\ ~st.in_quotes
         THEN IF st.current_part # <<>>
              THEN [st EXCEPT !.parts = Append(@, st.current_part),
                              !.current_part = <<>>]
              ELSE st
         ELSE [st EXCEPT !.current_part = Append(@, char)]

RECURSIVE TokenLoop(_, _)
TokenLoop(st, s) == IF s = <<>> THEN st ELSE TokenLoop(TokenStep(st, Head(s)), Tail(s))

\* the loop and the flush after it: [cmd_parts, in_quotes]
Tokenize(text) ==
    LET st == TokenLoop([parts |-> <<>>, current_part |-> <<>>,
                         in_quotes |-> FALSE, quote_char |-> ""], text)
    IN  [cmd_parts |-> IF st.current_part # <<>>
                       THEN Append(st.parts, st.current_part) ELSE st.parts,
         in_quotes |-> st.in_quotes]

-----------------------------------------------------------------------------
(* Values shared by the specifications *)

\* real_path when no path has been resolved
NoPath == [root |-> "none", parts |-> <<>>]

SeqsUpTo(S, n) == UNION {[1..k -> S] : k \in 0..n}

\* fs_root is <base_path>/userland_fs, an absolute host path
FsRoots == {Path(<<"/", "r">>), Path(<<"/", "o", "/", "r">>)}

Segs == {<<>>, <<".">>, <<".", ".">>, <<"a">>, <<"b">>}

VTails == {join("/", segs) : segs \in SeqsUpTo(Segs, MaxSegs)}

\* virtual paths: below fs_root, below the mount prefix, and one character
\* short of the mount prefix
VPaths ==
    VTails \cup {<<"/">> \o t : t \in VTails}
           \cup {MountPrefix \o t : t \in VTails}
           \cup {SubSeq(MountPrefix, 1, MountPrefixLen - 1) \o t : t \in VTails}

TokAlphabet == {"a", " ", "\t", "\"", "'"}

LineLsExample ==
    <<"l", "s", " ", "-", "a", " ", "\"", "m", "y", " ", "d", "i", "r", "\"">>

TokLines == SeqsUpTo(TokAlphabet, MaxLineLen) \cup {LineLsExample}

\* the session variables of a specification that does not run the session
Idle ==
    /\ current_dir = <<"/">>
    /\ real_current_dir = fs_root
    /\ running = FALSE
    /\ dirs = {<<>>}
    /\ files = {}
    /\ apps = <<>>
    /\ system_apps = <<>>
    /\ out = <<>>
    /\ child = "none"
    /\ term = "untouched"
    /\ pc = "input"

\* launch when the step called no run_app
NoLaunch == [app_name |-> <<>>, success |-> FALSE, message |-> "", exited |-> <<>>]

\* no application directory and no launch
IdleRegistry ==
    /\ apps_dir = <<>>
    /\ virtual_apps_dir = <<>>
    /\ system_apps_dir = <<>>
    /\ launch = NoLaunch

\* a file browser that was never started
IdleBrowser ==
    /\ current_virtual_dir = <<"/">>
    /\ current_real_dir = fs_root
    /\ items = <<>>
    /\ selection = 0
    /\ offset = 0
    /\ screen_height = 0
    /\ _is_running = FALSE
    /\ raised = "none"

\* a system initializer nothing was registered with
IdleInitializer ==
    /\ components = <<>>
    /\ dependencies = <<>>
    /\ initialized = {}
    /\ init_calls = <<>>
    /\ init_result = "none"

-----------------------------------------------------------------------------
(* SpecResolve: _virtual_to_real_path applied to every virtual path of VPaths *)

InitResolve ==
    /\ fs_root \in FsRoots
    /\ virtual_path \in VPaths
    /\ real_path = NoPath
    /\ input_line = <<>>
    /\ cmd_parts = <<>>
    /\ in_quotes = FALSE
    /\ handler = "none"
    /\ Idle
    /\ IdleRegistry
    /\ IdleBrowser
    /\ IdleInitializer

ResolveCall ==
    /\ handler = "none"
    /\ handler' = "_virtual_to_real_path"
    /\ real_path' = _virtual_to_real_path(virtual_path)
    /\ UNCHANGED <<fs_root, current_dir, real_current_dir, running, dirs, files,
                   apps, system_apps, input_line, cmd_parts, in_quotes, out,
                   virtual_path, child, term, pc, registry_vars, browser_vars, initializer_vars>>

SpecResolve == InitResolve /\ [][ResolveCall]_vars

\* FileManager.__init__ over the same fs_root and virtual path
FileManagerInit ==
    /\ handler = "_virtual_to_real_path"
    /\ handler' = "FileManager.__init__"
    /\ current_virtual_dir' = virtual_path
    /\ current_real_dir' = FileManager_virtual_to_real_path(virtual_path, fs_root)
    /\ UNCHANGED <<fs_root, current_dir, real_current_dir, running, dirs, files,
                   apps, system_apps, input_line, cmd_parts, in_quotes, out,
                   virtual_path, real_path, child, term, pc, registry_vars, items,
                   selection, offset, screen_height, _is_running, raised,
                   initializer_vars>>

\* SpecResolvers: the shell's resolver, then the browser's, on every virtual
\* path of VPaths
SpecResolvers == InitResolve /\ [][ResolveCall \/ FileManagerInit]_vars

-----------------------------------------------------------------------------
(* SpecTokenize: the tokenizer applied to every line of TokLines *)

InitTokenize ==
    /\ fs_root = Path(<<"/", "r">>)
    /\ virtual_path = <<>>
    /\ real_path = NoPath
    /\ input_line \in TokLines
    /\ cmd_parts = <<>>
    /\ in_quotes = FALSE
    /\ handler = "none"
    /\ Idle
    /\ IdleRegistry
    /\ IdleBrowser
    /\ IdleInitializer

\* cmd = input(prompt).strip() and the loop over cmd
TokenizeCall ==
    /\ handler = "none"
    /\ handler' = "tokenize"
    /\ LET t == Tokenize(strip(input_line))
       IN  /\ cmd_parts' = t.cmd_parts
           /\ in_quotes' = t.in_quotes
    /\ UNCHANGED <<fs_root, current_dir, real_current_dir, running, dirs, files,
                   apps, system_apps, input_line, out, virtual_path, real_path,
                   child, term, pc, registry_vars, browser_vars, initializer_vars>>

SpecTokenize == InitTokenize /\ [][TokenizeCall]_vars

-----------------------------------------------------------------------------
(* Claims about the resolver, under SpecResolve *)

\* normalization read from the right: a ".." cancels the nearest segment to
\* its left that is still standing, and is dropped when there is none
RECURSIVE RefNormalize(_, _)
RefNormalize(segs, skip) ==
    IF segs = <<>> THEN <<>>
    ELSE LET last == segs[Len(segs)]
             init == SubSeq(segs, 1, Len(segs) - 1)
         IN  IF last = <<".", ".">> THEN RefNormalize(init, skip + 1)
             ELSE IF last = <<>> \/ last = <<".">> THEN RefNormalize(init, skip)
             ELSE IF skip > 0 THEN RefNormalize(init, skip - 1)
             ELSE Append(RefNormalize(init, 0), last)

Resolved == handler = "_virtual_to_real_path"

\* C1: for every virtual path that does not start with "/mnt/system", the
\* resolver returns fs_root followed by the segments that stack processing
\* leaves ("." and empty segments skipped, ".." popping, ignored on an empty
\* stack); every such input has a result, and the result is fs_root or below it.
C1_ResolveUnderRoot ==
    (Resolved /\ ~startswith(virtual_path, MountPrefix)) =>
          /\ real_path = [root |-> fs_root.root,
                          parts |-> fs_root.parts
                                      \o RefNormalize(split(virtual_path, "/"), 0)]
          /\ SubSeq(real_path.parts, 1, Len(fs_root.parts)) = fs_root.parts
          /\ \A i \in (Len(fs_root.parts) + 1)..Len(real_path.parts) :
                real_path.parts[i] \notin {<<>>, <<".">>, <<".", ".">>}

\* C1's case: "/a/../../b", whose second ".." finds the stack empty
C1_Witness ==
    /\ Resolved
    /\ virtual_path = <<"/", "a", "/", ".", ".", "/", ".", ".", "/", "b">>
    /\ real_path = [root |-> fs_root.root, parts |-> Append(fs_root.parts, <<"b">>)]

\* C2: for every virtual path that starts with "/mnt/system", the resolver
\* returns the host root when nothing follows the prefix, and otherwise the
\* remainder as an absolute host path, never a path joined with fs_root.
C2_MountIsAbsoluteHostPath ==
    (Resolved /\ startswith(virtual_path, MountPrefix)) =>
        LET rest == SliceFrom(virtual_path, MountPrefixLen)
        IN  /\ real_path.root # ""
            /\ rest = <<>> => real_path = [root |-> "/", parts |-> <<>>]
            /\ real_path.parts = SelectSeq(split(rest, "/"),
                                           LAMBDA seg : seg # <<>> /\ seg # <<".">>)

-----------------------------------------------------------------------------
(* Claims about the tokenizer, under SpecTokenize *)

\* the quote character open after the first i characters of s, "" when none
RECURSIVE QuoteAfter(_, _)
QuoteAfter(s, i) ==
    IF i = 0 THEN ""
    ELSE LET q == QuoteAfter(s, i - 1)
         IN  IF ~IsQuote(s[i]) THEN q
             ELSE IF q = "" THEN s[i]
             ELSE IF q = s[i] THEN "" ELSE q

Balanced(s) == QuoteAfter(s, Len(s)) = ""

\* what character i of s is: a quote that opens or closes a region, a
\* separator (whitespace outside quotes), or content
CharClass(s, i) ==
    LET q == QuoteAfter(s, i - 1)
    IN  IF IsQuote(s[i]) /\ (q = "" \/ q = s[i]) THEN "delimiter"
        ELSE IF isspace(s[i]) /\ q = "" THEN "separator"
        ELSE "content"

RECURSIVE ContentOf(_, _, _)
ContentOf(s, i, j) ==
    IF i > j THEN <<>>
    ELSE (IF CharClass(s, i) = "content" THEN <<s[i]>> ELSE <<>>)
            \o ContentOf(s, i + 1, j)

\* the reference tokenizer: the maximal separator-free stretches of s, each
\* reduced to its content characters, the stretches with no content dropped
RECURSIVE RefTokensFrom(_, _)
RefTokensFrom(s, i) ==
    IF i > Len(s) THEN <<>>
    ELSE IF CharClass(s, i) = "separator" THEN RefTokensFrom(s, i + 1)
    ELSE LET j == CHOOSE k \in i..Len(s) :
                     /\ \A m \in i..k : CharClass(s, m) # "separator"
                     /\ (k = Len(s) \/ CharClass(s, k + 1) = "separator")
             tok == ContentOf(s, i, j)
         IN  (IF tok = <<>> THEN <<>> ELSE <<tok>>) \o RefTokensFrom(s, j + 1)

Tokenized == handler = "tokenize"

\* C3: for every line whose quotes are balanced the shell's token list is the
\* reference tokenizer's (quotes that open or close a region dropped, all else
\* inside a region copied, whitespace outside quotes separating), and
\* ls -a "my dir" gives ls, -a, my dir.
C3_TokensMatchReference ==
    /\ (Tokenized /\ Balanced(input_line)) =>
          /\ ~in_quotes
          /\ cmd_parts = RefTokensFrom(input_line, 1)
    /\ (Tokenized /\ input_line = LineLsExample) =>
          cmd_parts = <<<<"l", "s">>, <<"-", "a">>, <<"m", "y", " ", "d", "i", "r">>>>

\* C3's case: a quoted region holding whitespace and the other quote character
C3_Witness ==
    /\ Tokenized
    /\ input_line = <<"\"", "a", " ", "'", "\"">>
    /\ cmd_parts = <<<<"a", " ", "'">>>>

-----------------------------------------------------------------------------
(* The host filesystem.  A node is the sequence of names from the host root; *)
(* dirs and files hold the nodes that exist.  No symbolic links.             *)

\* the working directory of the process: base_path, the parent of the
\* session's fs_root
HostCwd == <<>>

Front(node) == SubSeq(node, 1, Len(node) - 1)

\* a host directory the user may neither search nor read
NoAccess == {<<<<"p">>>>}

\* the kernel's path walk: every component but the last must be a directory
\* the process may search; ".." at the root stays at the root
RECURSIVE WalkFrom(_, _, _, _)
WalkFrom(D, F, node, parts) ==
    IF parts = <<>> THEN [err |-> "", node |-> node]
    ELSE IF node \in F THEN [err |-> "ENOTDIR", node |-> node]
    ELSE IF node \notin D THEN [err |-> "ENOENT", node |-> node]
    ELSE IF node \in NoAccess THEN [err |-> "EACCES", node |-> node]
    ELSE LET next == IF Head(parts) = <<".", ".">>
                     THEN (IF node = <<>> THEN node ELSE Front(node))
                     ELSE Append(node, Head(parts))
         IN  WalkFrom(D, F, next, Tail(parts))

Walk(D, F, p) == WalkFrom(D, F, IF p.root = "" THEN HostCwd ELSE <<>>, p.parts)

\* Path.exists(), Path.is_dir(), Path.is_file() as far as they return; they
\* raise PermissionError when StatRaises
Exists(D, F, p) == LET w == Walk(D, F, p) IN w.err = "" /\ w.node \in D \cup F

IsDir(D, F, p) == LET w == Walk(D, F, p) IN w.err = "" /\ w.node \in D

IsFile(D, F, p) == LET w == Walk(D, F, p) IN w.err = "" /\ w.node \in F

\* os.stat fails with EACCES, which pathlib does not swallow
StatRaises(D, F, p) == Walk(D, F, p).err = "EACCES"

\* Path.mkdir(parents, exist_ok): os.mkdir, on FileNotFoundError the parents
\* and then os.mkdir again, on any other OSError success only for an existing
\* directory under exist_ok.  [ok, dirs]: directories made before a failure stay
RECURSIVE Mkdir(_, _, _, _, _)
Mkdir(D, F, p, parents, exist_ok) ==
    LET w == Walk(D, F, p)
    IN  IF w.err = "" /\ w.node \notin D \cup F
        THEN [ok |-> TRUE, dirs |-> D \cup {w.node}]
        ELSE IF w.err = "ENOENT"
        THEN IF ~parents \/ PathParent(p) = p
             THEN [ok |-> FALSE, dirs |-> D]
             ELSE LET r == Mkdir(D, F, PathParent(p), TRUE, TRUE)
                  IN  IF ~r.ok THEN r ELSE Mkdir(r.dirs, F, p, FALSE, exist_ok)
        ELSE [ok |-> exist_ok /\ IsDir(D, F, p), dirs |-> D]

\* real_path.parent.mkdir(parents=True, exist_ok=True); real_path.touch()
Touch(D, F, p) ==
    LET r == Mkdir(D, F, PathParent(p), TRUE, TRUE)
        w == Walk(r.dirs, F, p)
    IN  IF ~r.ok \/ w.err # "" THEN [ok |-> FALSE, dirs |-> r.dirs, files |-> F]
        ELSE IF w.node \in r.dirs \cup F
        THEN [ok |-> TRUE, dirs |-> r.dirs, files |-> F]
        ELSE [ok |-> TRUE, dirs |-> r.dirs, files |-> F \cup {w.node}]

IsBelow(n, node) == Len(n) > Len(node) /\ SubSeq(n, 1, Len(node)) = node

\* shutil.rmtree(p) for a directory, p.unlink() otherwise.  rmtree empties the
\* directory and then calls os.rmdir(p), which fails for the root and for a
\* path whose last component is ".."
Remove(D, F, p) ==
    LET w == Walk(D, F, p)
    IN  IF IsDir(D, F, p)
        THEN LET keepsNode == \/ w.node = <<>>
                              \/ p.parts = <<>>
                              \/ p.parts[Len(p.parts)] = <<".", ".">>
             IN  [ok |-> ~keepsNode,
                  dirs |-> {n \in D : ~IsBelow(n, w.node) /\ (n # w.node \/ keepsNode)},
                  files |-> {n \in F : ~IsBelow(n, w.node)}]
        ELSE IF IsFile(D, F, p)
        THEN [ok |-> TRUE, dirs |-> D, files |-> F \ {w.node}]
        ELSE [ok |-> FALSE, dirs |-> D, files |-> F]

-----------------------------------------------------------------------------
(* Words of the command language *)

S_exit == <<"e", "x", "i", "t">>
S_help == <<"h", "e", "l", "p">>
S_cd == <<"c", "d">>
S_ls == <<"l", "s">>
S_cat == <<"c", "a", "t">>
S_pwd == <<"p", "w", "d">>
S_whoami == <<"w", "h", "o", "a", "m", "i">>
S_clear == <<"c", "l", "e", "a", "r">>
S_apps == <<"a", "p", "p", "s">>
S_run == <<"r", "u", "n">>
S_mkdir == <<"m", "k", "d", "i", "r">>
S_touch == <<"t", "o", "u", "c", "h">>
S_rm == <<"r", "m">>
S_echo == <<"e", "c", "h", "o">>
S_calc == <<"c", "a", "l", "c">>
S_sys == <<"s", "y", "s">>
S_junk == <<"j", "u", "n", "k">>
S_foo == <<"f", "o", "o">>
S_home == <<"h", "o", "m", "e">>

current_user == <<"u">>

\* a printed line: its fixed text and the value formatted into it
Msg(text, arg) == [text |-> text, arg |-> arg]

-----------------------------------------------------------------------------
(* The built-in handlers of UserLandSystem.  Each sets what it printed (out), *)
(* the path it resolved (virtual_path, real_path), the session directory and  *)
(* the filesystem.                                                            *)

NoResolve == virtual_path' = <<>> /\ real_path' = NoPath

NoChild == child' = "none" /\ term' = "untouched" /\ launch' = NoLaunch

\* an exception that escapes the handler: caught by _main_loop's
\* `except Exception`, which prints "Errore: ..."
Escapes == out' = <<Msg("Errore", <<>>)>>

\* the virtual path ls, cat, mkdir, touch and rm build from their argument
ArgVirtualPath(path) ==
    IF startswith(path, <<"/">>) THEN path
    ELSE IF endswith(current_dir, <<"/">>) THEN current_dir \o path
    ELSE current_dir \o <<"/">> \o path

\* the virtual path cd builds from its argument (not at "/" with "..")
CdNewPath(path) ==
    IF startswith(path, <<"/">>) THEN path
    ELSE IF path = <<".", ".">>
    THEN LET parent == PathStr(PathParent(Path(current_dir)))
         IN  IF parent = <<>> THEN <<"/">> ELSE parent
    ELSE IF endswith(current_dir, <<"/">>) THEN current_dir \o path
    ELSE current_dir \o <<"/">> \o path

Slashes(s) == Len(SelectSeq(s, LAMBDA c : c = "/"))

\* a variant of the commit that keeps the cached real directory
CdCommit_stale(new_path, real) ==
    /\ current_dir' = new_path
    /\ UNCHANGED real_current_dir

\* the last two assignments of _change_directory
CdCommit(new_path, real) ==
    /\ current_dir' = new_path
    /\ real_current_dir' = real

\* a variant of cd that commits without looking at the real path
_change_directory_unchecked(path) ==
    /\ UNCHANGED <<dirs, files>>
    /\ NoChild
    /\ IF path = <<".", ".">> /\ current_dir = <<"/">>
       THEN /\ NoResolve
            /\ out' = <<>>
            /\ UNCHANGED <<current_dir, real_current_dir>>
       ELSE LET new_path == CdNewPath(path)
                real == _virtual_to_real_path(new_path)
            IN  /\ virtual_path' = new_path
                /\ real_path' = real
                /\ Slashes(new_path) <= MaxDirSlashes
                /\ out' = <<>>
                /\ CdCommit(new_path, real)

_change_directory(path) ==
    /\ UNCHANGED <<dirs, files>>
    /\ NoChild
    /\ IF path = <<".", ".">> /\ current_dir = <<"/">>
       THEN /\ NoResolve
            /\ out' = <<>>
            /\ UNCHANGED <<current_dir, real_current_dir>>
       ELSE LET new_path == CdNewPath(path)
                real == _virtual_to_real_path(new_path)
            IN  /\ virtual_path' = new_path
                /\ real_path' = real
                /\ IF StatRaises(dirs, files, real)
                   THEN Escapes /\ UNCHANGED <<current_dir, real_current_dir>>
                   ELSE IF ~Exists(dirs, files, real)
                   THEN /\ out' = <<Msg("cd: No such file or directory", path)>>
                        /\ UNCHANGED <<current_dir, real_current_dir>>
                   ELSE IF ~IsDir(dirs, files, real)
                   THEN /\ out' = <<Msg("cd: Not a directory", path)>>
                        /\ UNCHANGED <<current_dir, real_current_dir>>
                   ELSE /\ Slashes(new_path) <= MaxDirSlashes
                        /\ out' = <<>>
                        /\ CdCommit(new_path, real)

\* a variant of ls that makes the directory it lists the current one
_list_directory_enters(path) ==
    /\ UNCHANGED <<dirs, files>>
    /\ NoChild
    /\ LET target_path == IF path = <<>> THEN real_current_dir
                          ELSE _virtual_to_real_path(ArgVirtualPath(path))
       IN  /\ IF path = <<>> THEN NoResolve
              ELSE /\ virtual_path' = ArgVirtualPath(path)
                   /\ real_path' = target_path
           /\ IF IsDir(dirs, files, target_path) /\ path # <<>>
                 /\ Slashes(ArgVirtualPath(path)) <= MaxDirSlashes
              THEN /\ out' = <<Msg("ls: entries", path)>>
                   /\ CdCommit(ArgVirtualPath(path), target_path)
              ELSE /\ out' = <<Msg("ls: cannot access: No such file or directory", path)>>
                   /\ UNCHANGED <<current_dir, real_current_dir>>

_list_directory(path) ==
    /\ UNCHANGED <<current_dir, real_current_dir, dirs, files>>
    /\ NoChild
    /\ LET target_path == IF path = <<>> THEN real_current_dir
                          ELSE _virtual_to_real_path(ArgVirtualPath(path))
       IN  /\ IF path = <<>> THEN NoResolve
              ELSE /\ virtual_path' = ArgVirtualPath(path)
                   /\ real_path' = target_path
           /\ IF StatRaises(dirs, files, target_path) THEN Escapes
              ELSE IF ~Exists(dirs, files, target_path)
              THEN out' = <<Msg("ls: cannot access: No such file or directory", path)>>
              ELSE IF ~IsDir(dirs, files, target_path)
              THEN out' = <<Msg("ls: file", path)>>
              ELSE IF Walk(dirs, files, target_path).node \in NoAccess
              THEN out' = <<Msg("ls: cannot open directory: Permission denied", path)>>
              ELSE out' = <<Msg("ls: entries", path)>>

_cat_file(path) ==
    /\ UNCHANGED <<current_dir, real_current_dir, dirs, files>>
    /\ NoChild
    /\ LET real == _virtual_to_real_path(ArgVirtualPath(path))
       IN  /\ virtual_path' = ArgVirtualPath(path)
           /\ real_path' = real
           /\ IF StatRaises(dirs, files, real) THEN Escapes
              ELSE IF ~Exists(dirs, files, real)
              THEN out' = <<Msg("cat: No such file or directory", path)>>
              ELSE IF ~IsFile(dirs, files, real)
              THEN out' = <<Msg("cat: Is a directory", path)>>
              ELSE out' = <<Msg("cat: content", path)>>

\* the session specification keeps the filesystem within MaxNodes nodes
WithinNodes(D, F) == Cardinality(D \cup F) <= MaxNodes

_make_directory(path) ==
    /\ UNCHANGED <<current_dir, real_current_dir, files>>
    /\ NoChild
    /\ LET real == _virtual_to_real_path(ArgVirtualPath(path))
           r == Mkdir(dirs, files, real, TRUE, FALSE)
       IN  /\ virtual_path' = ArgVirtualPath(path)
           /\ real_path' = real
           /\ WithinNodes(r.dirs, files)
           /\ dirs' = r.dirs
           /\ out' = IF r.ok THEN <<>>
                     ELSE <<Msg("mkdir: impossibile creare la directory", path)>>

_touch_file(path) ==
    /\ UNCHANGED <<current_dir, real_current_dir>>
    /\ NoChild
    /\ LET real == _virtual_to_real_path(ArgVirtualPath(path))
           r == Touch(dirs, files, real)
       IN  /\ virtual_path' = ArgVirtualPath(path)
           /\ real_path' = real
           /\ WithinNodes(r.dirs, r.files)
           /\ dirs' = r.dirs
           /\ files' = r.files
           /\ out' = IF r.ok THEN <<>>
                     ELSE <<Msg("touch: impossibile creare il file", path)>>

_remove_file(path) ==
    /\ UNCHANGED <<current_dir, real_current_dir>>
    /\ NoChild
    /\ LET real == _virtual_to_real_path(ArgVirtualPath(path))
           r == Remove(dirs, files, real)
       IN  /\ virtual_path' = ArgVirtualPath(path)
           /\ real_path' = real
           /\ dirs' = r.dirs
           /\ files' = r.files
           /\ out' = IF r.ok THEN <<>>
                     ELSE <<Msg("rm: impossibile rimuovere", path)>>

-----------------------------------------------------------------------------
(* AppManager.run_app and the host-shell executor *)

\* an AppInfo: app_type, system_app, and whether its path is a file (an
\* executable of the system binaries directory) or an app directory
NoApp == [app_type |-> "none", system_app |-> FALSE, is_file |-> FALSE]

\* system_apps.get(app_name), then apps.get(app_name)
LookupApp(app_name) ==
    IF app_name \in DOMAIN system_apps THEN system_apps[app_name]
    ELSE IF app_name \in DOMAIN apps THEN apps[app_name]
    ELSE NoApp

\* what the host decides during a launch: whether curses.endwin() and
\* curses.initscr() succeed, whether the entry script exists and uses curses,
\* whether the launch raises, the exit code.  Combinations that differ only in
\* a value the launch never reads are listed once
RunEnvs ==
    {e \in [endwin_ok : BOOLEAN, initscr_ok : BOOLEAN, main_exists : BOOLEAN,
            uses_curses : BOOLEAN, raises : BOOLEAN, returncode : {0, 1}] :
        /\ ~e.endwin_ok => e.initscr_ok
        /\ ~e.main_exists => (~e.raises /\ ~e.uses_curses /\ e.returncode = 0)
        /\ e.raises => (e.returncode = 0 /\ ~e.uses_curses)}

Outcome(success, message, spawned) ==
    [success |-> success, message |-> message, child |-> spawned]

\* the body of run_app's try block for a found application
LaunchApp(app_name, app_info, e) ==
    IF app_info.app_type = "py"
    THEN IF app_info.system_app /\ app_info.is_file
         THEN IF e.raises
              THEN Outcome(FALSE, "Errore durante l'esecuzione dell'applicazione", "none")
              ELSE IF e.returncode # 0
              THEN Outcome(FALSE, "Errore nell'esecuzione", "app")
              ELSE Outcome(TRUE, "Applicazione eseguita con successo", "app")
         ELSE IF ~e.main_exists
         THEN Outcome(FALSE, "File main.py non trovato per l'app", "none")
         ELSE IF e.raises
         THEN Outcome(FALSE, "Errore durante l'esecuzione dell'applicazione", "none")
         ELSE IF e.uses_curses
         THEN Outcome(TRUE, "Applicazione eseguita con successo", "app")
         ELSE IF e.returncode # 0
         THEN Outcome(FALSE, "Errore nell'esecuzione", "app")
         ELSE Outcome(TRUE, "Applicazione eseguita con successo", "app")
    ELSE IF app_info.app_type = "sh"
    THEN IF ~(app_info.system_app /\ app_info.is_file) /\ ~e.main_exists
         THEN Outcome(FALSE, "File main.sh non trovato per l'app", "none")
         ELSE IF e.raises
         THEN Outcome(FALSE, "Errore durante l'esecuzione dell'applicazione", "none")
         ELSE IF e.returncode # 0
         THEN Outcome(FALSE, "Errore nell'esecuzione", "app")
         ELSE Outcome(TRUE, "Script eseguito con successo", "app")
    ELSE Outcome(FALSE, "Tipo di applicazione non supportato", "none")

\* what a call did to the curses terminal: "untouched" when endwin() raised or
\* was never called, "resumed" when initscr() followed endwin(), "resume_failed"
\* when that initscr() raised into `except: pass`, "suspended" when endwin()
\* was followed by no initscr() at all
Terminal(e) ==
    IF ~e.endwin_ok THEN "untouched"
    ELSE IF e.initscr_ok THEN "resumed" ELSE "resume_failed"

\* CompletedProcess.returncode or process.wait() when a child was launched
Exited(spawned, e) == IF spawned = "app" THEN <<e.returncode>> ELSE <<>>

\* a variant that suspends the terminal before it looks the application up
run_app_early_suspend(app_name, e) ==
    LET app_info == LookupApp(app_name)
    IN  IF app_info = NoApp
        THEN [success |-> FALSE, message |-> "Applicazione non trovata",
              child |-> "none", exited |-> <<>>,
              term |-> IF e.endwin_ok THEN "suspended" ELSE "untouched"]
        ELSE LET r == LaunchApp(app_name, app_info, e)
             IN  [success |-> r.success, message |-> r.message, child |-> r.child,
                  exited |-> Exited(r.child, e), term |-> Terminal(e)]

\* a variant whose missing-entry-script returns leave before the finally block
run_app_no_finally(app_name, e) ==
    LET app_info == LookupApp(app_name)
    IN  IF app_info = NoApp
        THEN [success |-> FALSE, message |-> "Applicazione non trovata",
              child |-> "none", exited |-> <<>>, term |-> "untouched"]
        ELSE LET r == LaunchApp(app_name, app_info, e)
             IN  [success |-> r.success, message |-> r.message, child |-> r.child,
                  exited |-> Exited(r.child, e),
                  term |-> IF /\ e.endwin_ok
                              /\ r.message \in {"File main.py non trovato per l'app",
                                                "File main.sh non trovato per l'app"}
                           THEN "suspended" ELSE Terminal(e)]

\* run_app: [success, message, child, exited, term]
run_app(app_name, e) ==
    LET app_info == LookupApp(app_name)
    IN  IF app_info = NoApp
        THEN [success |-> FALSE, message |-> "Applicazione non trovata",
              child |-> "none", exited |-> <<>>, term |-> "untouched"]
        ELSE LET r == LaunchApp(app_name, app_info, e)
             IN  [success |-> r.success, message |-> r.message, child |-> r.child,
                  exited |-> Exited(r.child, e), term |-> Terminal(e)]

\* launch after run_app(app_name, ...) returned r
Launched(app_name, r) ==
    [app_name |-> app_name, success |-> r.success, message |-> r.message,
     exited |-> r.exited]

_run_app(app_name) ==
    /\ UNCHANGED <<current_dir, real_current_dir, dirs, files>>
    /\ NoResolve
    /\ \E e \in RunEnvs :
          LET r == run_app(app_name, e)
          IN  /\ out' = IF r.success THEN <<>> ELSE <<Msg(r.message, app_name)>>
              /\ child' = r.child
              /\ term' = r.term
              /\ launch' = Launched(app_name, r)

\* what the host makes of a command line: it runs, it is not found
\* (FileNotFoundError), or the launch fails otherwise
HostOutcomes == {"ran", "notfound", "error"}

\* command.split()[0]
RECURSIVE FirstWord(_)
FirstWord(s) ==
    IF s = <<>> \/ isspace(Head(s)) THEN <<>> ELSE <<Head(s)>> \o FirstWord(Tail(s))

\* ShellManager.execute_command: every exception is caught inside, so the call
\* returns in every case; [raised, printed, child]
execute_command(command, outcome) ==
    [raised |-> FALSE,
     printed |-> IF outcome = "notfound"
                 THEN <<Msg("Comando non trovato", FirstWord(command))>>
                 ELSE IF outcome = "error"
                 THEN <<Msg("Errore durante l'esecuzione del comando", <<>>)>>
                 ELSE <<>>,
     child |-> IF outcome = "ran" THEN "host" ELSE "none"]

\* UserLandSystem._execute_command: True unless execute_command raised
ExecuteCommandResult(r) == ~r.raised

-----------------------------------------------------------------------------
(* AppManager.scan_apps, _load_app_info and install_app_to_virtual_fs *)

S_tool == <<"t", "o", "o", "l">>
S_d1 == <<"d", "1">>
S_d2 == <<"d", "2">>
S_main_py == <<"m", "a", "i", "n", ".", "p", "y">>
S_main_sh == <<"m", "a", "i", "n", ".", "s", "h">>
S_app_json == <<"a", "p", "p", ".", "j", "s", "o", "n">>
S_sys_sh == <<"s", "y", "s", ".", "s", "h">>
S_calc_py == <<"c", "a", "l", "c", ".", "p", "y">>
S_notes == <<"n", "o", "t", "e", "s">>
S_dot_py == <<".", "p", "y">>
S_dot_sh == <<".", "s", "h">>

\* content[:20]
HeadLines == 20

\* data.get(key, default) and getattr(module, key, default)
Get(data, key, default) == IF key \in DOMAIN data THEN data[key] ELSE default

\* d with d[k] = v
Put(d, k, v) == [x \in DOMAIN d \cup {k} |-> IF x = k THEN v ELSE d[x]]

\* str.lower() on the letters the names and script comments of the model
\* contain
LowerChar(c) ==
    IF c = "T" THEN "t" ELSE IF c = "R" THEN "r" ELSE IF c = "U" THEN "u"
    ELSE IF c = "E" THEN "e" ELSE IF c = "A" THEN "a" ELSE c

lower(s) == [i \in 1..Len(s) |-> LowerChar(s[i])]

\* the metadata the loop over content[:20] has gathered: name and system_app
RECURSIVE ShMeta(_, _, _)
ShMeta(content, i, meta) ==
    IF i > Len(content) \/ i > HeadLines THEN meta
    ELSE LET line == strip(content[i])
         IN  ShMeta(content, i + 1,
                    IF startswith(line, <<"#", " ", "N", "a", "m", "e", ":">>)
                    THEN [meta EXCEPT !.name = strip(SliceFrom(line, 7))]
                    ELSE IF startswith(line, <<"#", " ", "S", "y", "s", "t", "e", "m", ":">>)
                    THEN [meta EXCEPT !.system_app =
                              lower(strip(SliceFrom(line, 9))) = <<"t", "r", "u", "e">>]
                    ELSE meta)

\* an app directory: app.json ("absent", "invalid", "valid") and its object,
\* main.py ("absent", "ok", "fails" when its import raises) and the module's
\* attributes, main.sh ("absent", "ok", "unreadable") and its lines, and the
\* files that carry the executable bit
AppDir(app_json, data, main_py, module, main_sh, content, executable) ==
    [app_json |-> app_json, data |-> data, main_py |-> main_py, module |-> module,
     main_sh |-> main_sh, content |-> content, executable |-> executable]

NoData == <<>>

\* the AppInfo fields the registry and run_app read
AppInfo(name, path, app_type, system_app) ==
    [name |-> name, path |-> path, app_type |-> app_type, system_app |-> system_app,
     is_file |-> path.dir = "system_apps_dir"]

\* _load_app_info(app_dir) for the directory `name` of apps_dir with content d;
\* NoApp for None
_load_app_info(name, d) ==
    LET path == [dir |-> "apps_dir", name |-> name]
    IN  IF d.app_json # "absent"
        THEN IF d.app_json = "invalid"
             THEN NoApp
             ELSE LET app_type == IF d.main_sh # "absent" /\ d.main_py = "absent"
                                  THEN "sh" ELSE "py"
                  IN  AppInfo(Get(d.data, "name", name), path,
                              Get(d.data, "type", app_type),
                              Get(d.data, "system_app", FALSE))
        ELSE IF d.main_py # "absent"
        THEN IF d.main_py = "fails"
             THEN AppInfo(name, path, "py", FALSE)
             ELSE AppInfo(Get(d.module, "__title__", name), path, "py",
                          Get(d.module, "__system_app__", FALSE))
        ELSE IF d.main_sh # "absent"
        THEN IF d.main_sh = "unreadable"
             THEN AppInfo(name, path, "sh", FALSE)
             ELSE LET meta == ShMeta(d.content, 1, [name |-> name, system_app |-> FALSE])
                  IN  AppInfo(meta.name, path, "sh", meta.system_app)
        ELSE NoApp

\* Path.suffix and Path.stem of a file name
RECURSIVE LastDot(_, _)
LastDot(name, i) ==
    IF i = 0 THEN 0 ELSE IF name[i] = "." THEN i ELSE LastDot(name, i - 1)

suffix(name) ==
    LET i == LastDot(name, Len(name))
    IN  IF 1 < i /\ i < Len(name) THEN SubSeq(name, i, Len(name)) ELSE <<>>

stem(name) ==
    LET i == LastDot(name, Len(name))
    IN  IF 1 < i /\ i < Len(name) THEN SubSeq(name, 1, i - 1) ELSE name

\* the orders in which iterdir() can yield the entries S
Orders(S) ==
    {o \in [1..Cardinality(S) -> S] :
        \A i, j \in 1..Cardinality(S) : i # j => o[i] # o[j]}

\* a variant that registers every descriptor in the user namespace
RegisterDir_user(reg, info) ==
    IF info = NoApp THEN reg
    ELSE [reg EXCEPT !.apps = Put(@, info.name, info)]

\* what a scan registers for one app directory: the user namespace keeps a
\* descriptor whose system flag is false, the system namespace the others
RegisterDir(reg, info) ==
    IF info = NoApp THEN reg
    ELSE IF ~info.system_app
    THEN [reg EXCEPT !.apps = Put(@, info.name, info)]
    ELSE [reg EXCEPT !.system_apps = Put(@, info.name, info)]

\* the loop over apps_dir.iterdir()
RECURSIVE ScanAppDirs(_, _, _)
ScanAppDirs(A, order, reg) ==
    IF order = <<>> THEN reg
    ELSE ScanAppDirs(A, Tail(order),
                     RegisterDir(reg, _load_app_info(Head(order), A[Head(order)])))

\* the loop over system_apps_dir.iterdir()
RECURSIVE ScanSystemApps(_, _, _)
ScanSystemApps(B, order, reg) ==
    IF order = <<>> THEN reg
    ELSE LET item == Head(order)
             next == IF /\ B[item].is_file
                        /\ suffix(item) \in {S_dot_py, S_dot_sh}
                        /\ B[item].executable
                     THEN [reg EXCEPT !.system_apps =
                              Put(@, stem(item),
                                  AppInfo(stem(item),
                                          [dir |-> "system_apps_dir", name |-> item],
                                          Tail(suffix(item)), TRUE))]
                     ELSE reg
         IN  ScanSystemApps(B, Tail(order), next)

\* scan_apps over the app directories A and the system binaries B, met in the
\* orders a_order and b_order: [apps, system_apps]
scan_apps(A, B, a_order, b_order) ==
    ScanSystemApps(B, b_order,
                   ScanAppDirs(A, a_order, [apps |-> <<>>, system_apps |-> <<>>]))

\* the files an app directory holds
FilesOf(d) ==
    {f \in {S_app_json, S_main_py, S_main_sh} :
        \/ f = S_app_json /\ d.app_json # "absent"
        \/ f = S_main_py /\ d.main_py # "absent"
        \/ f = S_main_sh /\ d.main_sh # "absent"}

NoDir == AppDir("absent", NoData, "absent", NoData, "absent", <<>>, {})

\* shutil.copy2 of every file of src into dst, the executable bit kept
CopyInto(dst, src) ==
    [app_json |-> IF src.app_json # "absent" THEN src.app_json ELSE dst.app_json,
     data |-> IF src.app_json # "absent" THEN src.data ELSE dst.data,
     main_py |-> IF src.main_py # "absent" THEN src.main_py ELSE dst.main_py,
     module |-> IF src.main_py # "absent" THEN src.module ELSE dst.module,
     main_sh |-> IF src.main_sh # "absent" THEN src.main_sh ELSE dst.main_sh,
     content |-> IF src.main_sh # "absent" THEN src.content ELSE dst.content,
     executable |-> (dst.executable \ FilesOf(src)) \cup src.executable]

\* install_app_to_virtual_fs with registry reg over the app directories A, the
\* installed directories V and the system binaries B: [virtual_apps_dir,
\* system_apps_dir]
install_app_to_virtual_fs(reg, A, V, B) ==
    [virtual_apps_dir |->
        [n \in DOMAIN V \cup DOMAIN reg.apps |->
            IF n \in DOMAIN reg.apps
            THEN CopyInto(IF n \in DOMAIN V THEN V[n] ELSE NoDir,
                          A[reg.apps[n].path.name])
            ELSE V[n]],
     system_apps_dir |->
        [n \in DOMAIN B \cup DOMAIN reg.system_apps |->
            IF n \in DOMAIN B THEN B[n]
            ELSE [is_file |-> TRUE, executable |-> TRUE]]]

\* app directories: a descriptor file that names a user app, an empty
\* descriptor object beside a shell script, a descriptor of a system app, a
\* descriptor of a type run_app does not support
DirCalc ==
    AppDir("valid", [name |-> S_calc, system_app |-> FALSE], "ok", NoData,
           "absent", <<>>, {S_main_py})

DirJsonBare == AppDir("valid", NoData, "absent", NoData, "ok", <<>>, {})

DirJsonSystem ==
    AppDir("valid", [name |-> S_tool, system_app |-> TRUE], "ok", NoData,
           "absent", <<>>, {})

DirJunk == AppDir("valid", [type |-> "rb"], "absent", NoData, "absent", <<>>, {})

\* a descriptor file that is not JSON, beside an entry script and alone
DirBadJson == AppDir("invalid", NoData, "ok", NoData, "absent", <<>>, {S_main_py})

DirBadJsonOnly == AppDir("invalid", NoData, "absent", NoData, "absent", <<>>, {})

\* only main.py: plain, with __system_app__ = True, and one whose import raises
DirPy == AppDir("absent", NoData, "ok", NoData, "absent", <<>>, {S_main_py})

DirPySystem ==
    AppDir("absent", NoData, "ok", ("__system_app__" :> TRUE), "absent", <<>>, {})

DirPyFails == AppDir("absent", NoData, "fails", NoData, "absent", <<>>, {})

\* only main.sh: `# System: true` on line 2, the same on line 21, a named
\* system app, one that cannot be read
DirShSystem ==
    AppDir("absent", NoData, "absent", NoData, "ok",
           <<<<"#", "!", "/", "b", "i", "n", "/", "s", "h">>, <<"#", " ", "S", "y", "s", "t", "e", "m", ":", " ", "t", "r", "u", "e">>>>, {S_main_sh})

DirShLate ==
    AppDir("absent", NoData, "absent", NoData, "ok",
           [i \in 1..(HeadLines + 1) |->
               IF i = HeadLines + 1 THEN <<"#", " ", "S", "y", "s", "t", "e", "m", ":", " ", "t", "r", "u", "e">> ELSE <<>>], {})

DirShNamed ==
    AppDir("absent", NoData, "absent", NoData, "ok",
           <<<<"#", " ", "N", "a", "m", "e", ":", " ", "c", "a", "l", "c">>, <<" ", " ", "#", " ", "S", "y", "s", "t", "e", "m", ":", " ", "T", "R", "U", "E", " ">>>>, {S_main_sh})

DirShUnreadable == AppDir("absent", NoData, "absent", NoData, "unreadable", <<>>, {})

AppDirKinds ==
    {DirCalc, DirJsonBare, DirJsonSystem, DirJunk, DirBadJson, DirBadJsonOnly, DirPy,
     DirPySystem, DirPyFails, DirShSystem, DirShLate, DirShNamed, DirShUnreadable,
     NoDir}

\* the kinds of a second directory: they repeat a name of the first, in the
\* same namespace or the other, or bring another name
SecondDirKinds == {DirCalc, DirShNamed, DirShSystem, DirPy, DirBadJson}

\* apps_dir holds none, one or both of the directories d1 and d2
AppsDirLayouts ==
    {f \in UNION {[names -> AppDirKinds] : names \in SUBSET {S_d1, S_d2}} :
        S_d2 \in DOMAIN f => f[S_d2] \in SecondDirKinds}

BinFile(executable) == [is_file |-> TRUE, executable |-> executable]

\* the system binaries directory: empty, one executable script, and a mix of
\* executable scripts, a script without the executable bit and another file
BinLayouts ==
    {<<>>,
     (S_sys_sh :> BinFile(TRUE)),
     (S_sys_sh :> BinFile(FALSE)) @@ (S_calc_py :> BinFile(TRUE))
         @@ (S_notes :> BinFile(TRUE))}

\* the names run_app is called with
RunNames == {S_calc, S_tool, S_d1, S_foo}

-----------------------------------------------------------------------------
(* SpecRegistry: an AppManager over every layout of AppsDirLayouts and
   BinLayouts; scan_apps, install_app_to_virtual_fs and run_app in any order *)

InitRegistry ==
    /\ fs_root = Path(<<"/", "r">>)
    /\ virtual_path = <<>>
    /\ real_path = NoPath
    /\ input_line = <<>>
    /\ cmd_parts = <<>>
    /\ in_quotes = FALSE
    /\ handler = "__init__"
    /\ Idle
    /\ apps_dir \in AppsDirLayouts
    /\ virtual_apps_dir = <<>>
    /\ system_apps_dir \in BinLayouts
    /\ launch = NoLaunch
    /\ IdleBrowser
    /\ IdleInitializer

\* what no AppManager method changes
RegistryFrame ==
    UNCHANGED <<fs_root, current_dir, real_current_dir, running, dirs, files,
                input_line, cmd_parts, in_quotes, out, virtual_path, real_path, pc,
                browser_vars, initializer_vars>>

ScanApps ==
    /\ handler' = "scan_apps"
    /\ \E a_order \in Orders(DOMAIN apps_dir), b_order \in Orders(DOMAIN system_apps_dir) :
          LET reg == scan_apps(apps_dir, system_apps_dir, a_order, b_order)
          IN  /\ apps' = reg.apps
              /\ system_apps' = reg.system_apps
    /\ launch' = NoLaunch
    /\ UNCHANGED <<registry_dirs, child, term>>
    /\ RegistryFrame

InstallApps ==
    /\ handler' = "install_app_to_virtual_fs"
    /\ LET r == install_app_to_virtual_fs([apps |-> apps, system_apps |-> system_apps],
                                          apps_dir, virtual_apps_dir, system_apps_dir)
       IN  /\ virtual_apps_dir' = r.virtual_apps_dir
           /\ system_apps_dir' = r.system_apps_dir
    /\ launch' = NoLaunch
    /\ UNCHANGED <<apps_dir, apps, system_apps, child, term>>
    /\ RegistryFrame

RunApp ==
    /\ handler' = "run_app"
    /\ \E app_name \in RunNames, e \in RunEnvs :
          LET r == run_app(app_name, e)
          IN  /\ child' = r.child
              /\ term' = r.term
              /\ launch' = Launched(app_name, r)
    /\ UNCHANGED <<registry_dirs, apps, system_apps>>
    /\ RegistryFrame

NextRegistry == ScanApps \/ InstallApps \/ RunApp

SpecRegistry == InitRegistry /\ [][NextRegistry]_vars

\* the app directories and system binaries of the session, and the registry
\* the scan_apps() of UserLandSystem.__init__ makes of them
SessionAppsDir == (S_calc :> DirPy) @@ (S_junk :> DirJunk)

SessionBin == (S_sys_sh :> BinFile(TRUE))

ScannedRegistry ==
    scan_apps(SessionAppsDir, SessionBin,
              CHOOSE o \in Orders(DOMAIN SessionAppsDir) : TRUE,
              CHOOSE o \in Orders(DOMAIN SessionBin) : TRUE)

-----------------------------------------------------------------------------
(* The session: UserLandSystem.__init__ and _main_loop *)

\* the built-ins and two other first tokens: an application and an unknown name
Commands ==
    {S_exit, S_help, S_cd, S_ls, S_cat, S_pwd, S_whoami, S_clear, S_apps, S_run,
     S_mkdir, S_touch, S_rm, S_echo, S_calc, S_foo}

\* the commands that take a path, each with arguments that exist, do not
\* exist, are files, climb, are absolute, or lie under the mount prefix
PathLines ==
    {<<"c", "d", " ", ".", ".">>,
     <<"c", "d", " ", ".">>,
     <<"c", "d", " ", "a">>,
     <<"c", "d", " ", "f">>,
     <<"c", "d", " ", "/">>,
     <<"c", "d", " ", "/", "h", "o", "m", "e", "/", ".", ".">>,
     <<"c", "d", " ", "/", "m", "n", "t", "/", "s", "y", "s", "t", "e", "m">>,
     <<"c", "d", " ", "/", "m", "n", "t", "/", "s", "y", "s", "t", "e", "m", "/", "p", "/", "a">>,
     <<"l", "s", " ", "a">>,
     <<"l", "s", " ", ".", ".">>,
     <<"c", "a", "t", " ", "f">>,
     <<"c", "a", "t", " ", "a">>,
     <<"m", "k", "d", "i", "r", " ", "a">>,
     <<"t", "o", "u", "c", "h", " ", "f">>,
     <<"r", "m", " ", "a">>,
     <<"r", "m", " ", "f">>,
     <<"r", "m", " ", ".">>,
     <<"r", "m", " ", "/">>}

\* lines with quotes, empty lines, and lines for run, echo and apps
OtherLines ==
    {<<>>,
     <<" ">>,
     <<"c", "d", " ", "\"", "a">>,
     <<"c", "d", " ", "\"", "a", "\"">>,
     <<"e", "x", "i", "t", " ", "\"">>,
     <<"'", "e", "x", "i", "t", "'">>,
     <<"e", "x", "i", "t", " ", "n", "o", "w">>,
     <<"r", "u", "n", " ", "c", "a", "l", "c">>,
     <<"r", "u", "n", " ", "j", "u", "n", "k">>,
     <<"r", "u", "n", " ", "f", "o", "o">>,
     <<"s", "y", "s">>,
     <<"e", "c", "h", "o", " ", "a">>,
     <<"a", "p", "p", "s", " ", "-", "a">>,
     <<"\"", "\"">>}

SessionLines == Commands \cup PathLines \cup OtherLines

\* cmd = input(prompt).strip() and its tokens, for every line of SessionLines
LineInfo == [l \in SessionLines |-> Tokenize(strip(l))]

HomeDir == <<"/">> \o S_home \o <<"/">> \o current_user

\* the registry after the scan_apps() of __init__: a Python user app, a user
\* app of a type run_app does not support, a shell system app
ScannedApps == ScannedRegistry.apps

ScannedSystemApps == ScannedRegistry.system_apps

Init ==
    /\ fs_root = Path(<<"/", "r">>)
    /\ current_dir = HomeDir
    /\ real_current_dir = PathJoin(PathJoin(fs_root, S_home), current_user)
    /\ running = TRUE
    /\ dirs = {<<>>, <<<<"r">>>>, <<<<"r">>, S_home>>, <<<<"r">>, S_home, current_user>>,
               <<<<"p">>>>}
    /\ files = {<<<<"r">>, S_home, current_user, <<"f">>>>}
    /\ apps = ScannedApps
    /\ system_apps = ScannedSystemApps
    /\ input_line = <<>>
    /\ cmd_parts = <<>>
    /\ in_quotes = FALSE
    /\ handler = "init"
    /\ out = <<>>
    /\ virtual_path = <<>>
    /\ real_path = NoPath
    /\ child = "none"
    /\ term = "untouched"
    /\ pc = "input"
    /\ apps_dir = SessionAppsDir
    /\ virtual_apps_dir = <<>>
    /\ system_apps_dir = SessionBin
    /\ launch = NoLaunch
    /\ IdleBrowser
    /\ IdleInitializer

\* one pass of the loop reads l: cmd, the tokens, and what no command changes
ReadLine(l, called) ==
    /\ running
    /\ pc = "input"
    /\ pc' = "dispatched"
    /\ input_line' = l
    /\ cmd_parts' = LineInfo[l].cmd_parts
    /\ in_quotes' = LineInfo[l].in_quotes
    /\ handler' = called
    /\ UNCHANGED <<fs_root, apps, system_apps, registry_dirs, browser_vars, initializer_vars>>

\* a pass that calls no handler and prints `printed`
Inline(printed) ==
    /\ out' = printed
    /\ NoResolve
    /\ NoChild
    /\ UNCHANGED <<current_dir, real_current_dir, dirs, files>>

\* the line reaches the dispatch with first token `base`
Dispatches(l, base) ==
    /\ strip(l) # <<>>
    /\ ~LineInfo[l].in_quotes
    /\ LineInfo[l].cmd_parts # <<>>
    /\ LineInfo[l].cmd_parts[1] = base

cmd_args(l) == Tail(LineInfo[l].cmd_parts)

\* cmd_args[0] if cmd_args else ""
FirstArgOrEmpty(l) == IF cmd_args(l) # <<>> THEN cmd_args(l)[1] ELSE <<>>

\* `if not cmd: continue`
EmptyLine(l) ==
    /\ strip(l) = <<>>
    /\ ReadLine(l, "none")
    /\ UNCHANGED running
    /\ Inline(<<>>)

\* a variant that drops the line with an open quote without a word
UnterminatedQuote_silent(l) ==
    /\ strip(l) # <<>>
    /\ LineInfo[l].in_quotes
    /\ ReadLine(l, "none")
    /\ UNCHANGED running
    /\ Inline(<<>>)

\* `if in_quotes: print(...); continue`
UnterminatedQuote(l) ==
    /\ strip(l) # <<>>
    /\ LineInfo[l].in_quotes
    /\ ReadLine(l, "none")
    /\ UNCHANGED running
    /\ Inline(<<Msg("Errore: citazione non chiusa nel comando", <<>>)>>)

\* `if not cmd_parts: continue`
NoTokens(l) ==
    /\ strip(l) # <<>>
    /\ ~LineInfo[l].in_quotes
    /\ LineInfo[l].cmd_parts = <<>>
    /\ ReadLine(l, "none")
    /\ UNCHANGED running
    /\ Inline(<<>>)

CmdExit(l) ==
    /\ Dispatches(l, S_exit)
    /\ ReadLine(l, "none")
    /\ running' = FALSE
    /\ Inline(<<>>)

CmdHelp(l) ==
    /\ Dispatches(l, S_help)
    /\ ReadLine(l, "_show_help")
    /\ UNCHANGED running
    /\ Inline(<<Msg("Comandi disponibili", <<>>)>>)

CmdCd(l) ==
    /\ Dispatches(l, S_cd)
    /\ ReadLine(l, "_change_directory")
    /\ UNCHANGED running
    /\ _change_directory(FirstArgOrEmpty(l))

CmdLs(l) ==
    /\ Dispatches(l, S_ls)
    /\ ReadLine(l, "_list_directory")
    /\ UNCHANGED running
    /\ _list_directory(FirstArgOrEmpty(l))

CmdCat(l) ==
    /\ Dispatches(l, S_cat)
    /\ UNCHANGED running
    /\ IF cmd_args(l) = <<>>
       THEN /\ ReadLine(l, "none")
            /\ Inline(<<Msg("cat: manca l'operando che specifica il file", <<>>)>>)
       ELSE /\ ReadLine(l, "_cat_file")
            /\ _cat_file(cmd_args(l)[1])

CmdPwd(l) ==
    /\ Dispatches(l, S_pwd)
    /\ ReadLine(l, "none")
    /\ UNCHANGED running
    /\ Inline(<<Msg("pwd", current_dir)>>)

CmdWhoami(l) ==
    /\ Dispatches(l, S_whoami)
    /\ ReadLine(l, "none")
    /\ UNCHANGED running
    /\ Inline(<<Msg("whoami", current_user)>>)

\* os.system('clear')
CmdClear(l) ==
    /\ Dispatches(l, S_clear)
    /\ ReadLine(l, "none")
    /\ UNCHANGED running
    /\ out' = <<>>
    /\ NoResolve
    /\ child' = "clear"
    /\ term' = "untouched"
    /\ launch' = NoLaunch
    /\ UNCHANGED <<current_dir, real_current_dir, dirs, files>>

\* _list_apps: the user apps, with --all or -a the system apps as well
_list_apps(args) ==
    LET show_all == \E i \in 1..Len(args) :
                       args[i] \in {<<"-", "-", "a", "l", "l">>, <<"-", "a">>}
        listed == DOMAIN apps \cup (IF show_all THEN DOMAIN system_apps ELSE {})
    IN  Inline(IF listed = {} THEN <<Msg("Nessuna applicazione trovata", <<>>)>>
               ELSE <<Msg("Applicazioni Disponibili", <<>>)>>)

CmdApps(l) ==
    /\ Dispatches(l, S_apps)
    /\ ReadLine(l, "_list_apps")
    /\ UNCHANGED running
    /\ _list_apps(cmd_args(l))

CmdRun(l) ==
    /\ Dispatches(l, S_run)
    /\ UNCHANGED running
    /\ IF cmd_args(l) = <<>>
       THEN /\ ReadLine(l, "none")
            /\ Inline(<<Msg("run: manca il nome dell'applicazione da eseguire", <<>>)>>)
       ELSE /\ ReadLine(l, "_run_app")
            /\ _run_app(cmd_args(l)[1])

CmdMkdir(l) ==
    /\ Dispatches(l, S_mkdir)
    /\ UNCHANGED running
    /\ IF cmd_args(l) = <<>>
       THEN /\ ReadLine(l, "none")
            /\ Inline(<<Msg("mkdir: manca l'operando", <<>>)>>)
       ELSE /\ ReadLine(l, "_make_directory")
            /\ _make_directory(cmd_args(l)[1])

CmdTouch(l) ==
    /\ Dispatches(l, S_touch)
    /\ UNCHANGED running
    /\ IF cmd_args(l) = <<>>
       THEN /\ ReadLine(l, "none")
            /\ Inline(<<Msg("touch: manca l'operando", <<>>)>>)
       ELSE /\ ReadLine(l, "_touch_file")
            /\ _touch_file(cmd_args(l)[1])

\* a variant of the rm branch without the operand check, as cd and ls have it
CmdRm_unchecked(l) ==
    /\ Dispatches(l, S_rm)
    /\ UNCHANGED running
    /\ ReadLine(l, "_remove_file")
    /\ _remove_file(FirstArgOrEmpty(l))

CmdRm(l) ==
    /\ Dispatches(l, S_rm)
    /\ UNCHANGED running
    /\ IF cmd_args(l) = <<>>
       THEN /\ ReadLine(l, "none")
            /\ Inline(<<Msg("rm: manca l'operando", <<>>)>>)
       ELSE /\ ReadLine(l, "_remove_file")
            /\ _remove_file(cmd_args(l)[1])

CmdEcho(l) ==
    /\ Dispatches(l, S_echo)
    /\ ReadLine(l, "none")
    /\ UNCHANGED running
    /\ Inline(<<Msg("echo", join(" ", cmd_args(l)))>>)

Builtins ==
    {S_exit, S_help, S_cd, S_ls, S_cat, S_pwd, S_whoami, S_clear, S_apps, S_run,
     S_mkdir, S_touch, S_rm, S_echo}

\* `if self.app_manager and cmd_base in apps or cmd_base in system_apps`
IsKnownApp(base) == base \in DOMAIN apps \/ base \in DOMAIN system_apps

\* the final else, first arm: the first token names an application
CmdApp(l) ==
    /\ \E base \in DOMAIN apps \cup DOMAIN system_apps :
          /\ base \notin Builtins
          /\ Dispatches(l, base)
          /\ IsKnownApp(base)
          /\ ReadLine(l, "_run_app")
          /\ UNCHANGED running
          /\ _run_app(base)

\* the final else, second arm: the raw line goes to the host shell
CmdHost(l) ==
    /\ strip(l) # <<>>
    /\ ~LineInfo[l].in_quotes
    /\ LineInfo[l].cmd_parts # <<>>
    /\ LET cmd_base == LineInfo[l].cmd_parts[1]
       IN  /\ cmd_base \notin Builtins
           /\ ~IsKnownApp(cmd_base)
           /\ ReadLine(l, "_execute_command")
           /\ UNCHANGED running
           /\ NoResolve
           /\ term' = "untouched"
           /\ launch' = NoLaunch
           /\ UNCHANGED <<current_dir, real_current_dir, dirs, files>>
           /\ \E outcome \in HostOutcomes :
                 LET r == execute_command(strip(l), outcome)
                     result == ExecuteCommandResult(r)
                 IN  /\ child' = r.child
                     /\ out' = r.printed \o
                               (IF ~result
                                THEN <<Msg("Comando non riconosciuto", cmd_base)>>
                                ELSE <<>>)

\* a variant in which Ctrl-C ends the session
KeyboardInterrupt_exits ==
    /\ running
    /\ pc = "input"
    /\ pc' = "dispatched"
    /\ input_line' = <<>>
    /\ cmd_parts' = <<>>
    /\ in_quotes' = FALSE
    /\ handler' = "KeyboardInterrupt"
    /\ Inline(<<>>)
    /\ running' = FALSE
    /\ UNCHANGED <<fs_root, apps, system_apps, registry_dirs, browser_vars, initializer_vars>>

\* Ctrl-C while input() waits: `except KeyboardInterrupt`
KeyboardInterrupt ==
    /\ running
    /\ pc = "input"
    /\ pc' = "dispatched"
    /\ input_line' = <<>>
    /\ cmd_parts' = <<>>
    /\ in_quotes' = FALSE
    /\ handler' = "KeyboardInterrupt"
    /\ Inline(<<Msg("Usa 'exit' per uscire", <<>>)>>)
    /\ UNCHANGED <<fs_root, apps, system_apps, running, registry_dirs, browser_vars, initializer_vars>>

\* end of input: input() raises EOFError, caught by `except Exception`
EndOfInput ==
    /\ running
    /\ pc = "input"
    /\ pc' = "dispatched"
    /\ input_line' = <<>>
    /\ cmd_parts' = <<>>
    /\ in_quotes' = FALSE
    /\ handler' = "EOFError"
    /\ Inline(<<Msg("Errore", <<>>)>>)
    /\ UNCHANGED <<fs_root, apps, system_apps, running, registry_dirs, browser_vars, initializer_vars>>

\* one pass of `while running`
_main_loop(l) ==
    /\ running
    /\ pc = "input"
    /\ \/ EmptyLine(l)
       \/ UnterminatedQuote(l)
       \/ NoTokens(l)
       \/ CmdExit(l)
       \/ CmdHelp(l)
       \/ CmdCd(l)
       \/ CmdLs(l)
       \/ CmdCat(l)
       \/ CmdPwd(l)
       \/ CmdWhoami(l)
       \/ CmdClear(l)
       \/ CmdApps(l)
       \/ CmdRun(l)
       \/ CmdMkdir(l)
       \/ CmdTouch(l)
       \/ CmdRm(l)
       \/ CmdEcho(l)
       \/ CmdApp(l)
       \/ CmdHost(l)

\* back to `while running`: the pass is over and what it printed scrolls away
LoopBack ==
    /\ running
    /\ pc = "dispatched"
    /\ pc' = "input"
    /\ input_line' = <<>>
    /\ cmd_parts' = <<>>
    /\ in_quotes' = FALSE
    /\ handler' = "none"
    /\ Inline(<<>>)
    /\ UNCHANGED <<fs_root, apps, system_apps, running, registry_dirs, browser_vars, initializer_vars>>

Next ==
    \/ \E l \in SessionLines : _main_loop(l)
    \/ KeyboardInterrupt
    \/ EndOfInput
    \/ LoopBack

Spec == Init /\ [][Next]_vars

-----------------------------------------------------------------------------
(* Claims about the session, under Spec *)

\* a step of Spec that is one pass of the loop
Pass == pc = "input" /\ pc' = "dispatched"

\* the pass read a line (it did not end in input())
ReadALine == handler \notin {"KeyboardInterrupt", "EOFError"}

SessionDir == <<current_dir, real_current_dir>>

M_UnterminatedQuote == Msg("Errore: citazione non chiusa nel comando", <<>>)

C4_OpenQuoteStep ==
    (Pass /\ ReadALine' /\ ~Balanced(strip(input_line'))) =>
        /\ out' = <<M_UnterminatedQuote>>
        /\ handler' = "none"
        /\ child' = "none"
        /\ term' = "untouched"
        /\ UNCHANGED <<SessionDir, dirs, files, apps, system_apps>>
        /\ running'

\* C4: whenever the line read ends with a quote still open, the pass prints
\* the unterminated-quote error and dispatches nothing: no handler is called,
\* no child process runs, current_dir and real_current_dir keep their values,
\* the filesystem is untouched and the session stays Running.
C4_OpenQuoteNotDispatched == [][C4_OpenQuoteStep]_vars

\* C4's case: `exit "` has been read and the session still runs
C4_Witness ==
    /\ pc = "dispatched"
    /\ input_line = <<"e", "x", "i", "t", " ", "\"">>
    /\ out = <<M_UnterminatedQuote>>
    /\ running

\* the tokens the pass dispatched on: none when it read no line, an empty
\* line, or a line with an open quote
LineTokens == IF ReadALine /\ ~in_quotes THEN cmd_parts ELSE <<>>

\* the argument cd, ls and the handlers with an operand were called with
FirstArg == IF Len(cmd_parts) > 1 THEN cmd_parts[2] ELSE <<>>

CdCalled == handler = "_change_directory" /\ real_path # NoPath

C5_CdFailureStep ==
    (Pass /\ CdCalled') =>
        LET w == Walk(dirs, files, real_path')
        IN  /\ (w.err \in {"ENOENT", "ENOTDIR"}
                    \/ (w.err = "" /\ w.node \notin dirs \cup files)) =>
                  /\ out' = <<Msg("cd: No such file or directory", FirstArg')>>
                  /\ UNCHANGED SessionDir
            /\ (w.err = "" /\ w.node \in files) =>
                  /\ out' = <<Msg("cd: Not a directory", FirstArg')>>
                  /\ UNCHANGED SessionDir
            /\ w.err = "EACCES" =>
                  /\ out' = <<Msg("Errore", <<>>)>>
                  /\ UNCHANGED SessionDir

C5_Original_Step ==
    (Pass /\ CdCalled') =>
        LET w == Walk(dirs, files, real_path')
        IN  (w.err # "" \/ w.node \notin dirs \cup files) =>
                /\ out' = <<Msg("cd: No such file or directory", FirstArg')>>
                /\ UNCHANGED SessionDir

ExitLine ==
    /\ LineTokens # <<>>
    /\ LineTokens[1] = S_exit

C6_RunningStep ==
    /\ (running /\ ~running') => (Pass /\ ExitLine')
    /\ (Pass /\ ExitLine') => ~running'
    /\ (Pass /\ \/ handler' = "KeyboardInterrupt"
                \/ ~Balanced(strip(input_line'))
                \/ strip(input_line') = <<>>
                \/ out' = <<Msg("Errore", <<>>)>>) => running'
    /\ ~running => (~Pass /\ UNCHANGED vars)

\* C6: the session starts Running; it leaves Running exactly by a pass whose
\* line has `exit` as first token; a keyboard interrupt, a line with an open
\* quote, an empty line and an exception out of a handler leave it Running;
\* once it is Terminated no line is read and nothing changes.
C6_RunningUntilExit == (running = TRUE) /\ [][C6_RunningStep]_vars

\* C6's case: the quoted word 'exit' has ended the session
C6_Witness ==
    /\ ~running
    /\ pc = "dispatched"
    /\ input_line = <<"'", "e", "x", "i", "t", "'">>

\* the name _run_app was called with: the operand of `run`, or the first token
RunName == IF cmd_parts[1] = S_run THEN cmd_parts[2] ELSE cmd_parts[1]

RunCalled == handler = "_run_app"

C7_UnknownAppStep ==
    (Pass /\ RunCalled' /\ RunName' \notin DOMAIN apps \cup DOMAIN system_apps) =>
        /\ out' = <<Msg("Applicazione non trovata", RunName')>>
        /\ child' = "none"
        /\ term' = "untouched"
        /\ UNCHANGED <<SessionDir, apps, system_apps>>

\* C7: running a name that is in neither registry fails with the not-found
\* message, starts no child process, does not suspend the terminal, and leaves
\* current_dir, real_current_dir and both registries as they were.
C7_UnknownAppNotFound == [][C7_UnknownAppStep]_vars

\* C7's case: `run foo`, foo being no application
C7_Witness ==
    /\ pc = "dispatched"
    /\ RunCalled
    /\ input_line = <<"r", "u", "n", " ", "f", "o", "o">>
    /\ out = <<Msg("Applicazione non trovata", S_foo)>>

Printed(m) == \E i \in 1..Len(out) : out[i] = m

\* C8: when the first token is neither a built-in nor an application the raw
\* line goes to the host-shell executor, and when the executor does not find
\* the command either the shell prints "Comando non riconosciuto: <name>".
C8_UnknownCommandReported ==
    (pc = "dispatched"
        /\ LineTokens # <<>>
        /\ LineTokens[1] \notin Builtins \cup DOMAIN apps \cup DOMAIN system_apps) =>
            /\ handler = "_execute_command"
            /\ Printed(Msg("Comando non trovato", FirstWord(strip(input_line)))) =>
                   Printed(Msg("Comando non riconosciuto", LineTokens[1]))

MissingOperand(c) ==
    CASE c = S_cat -> "cat: manca l'operando che specifica il file"
      [] c = S_run -> "run: manca il nome dell'applicazione da eseguire"
      [] c = S_mkdir -> "mkdir: manca l'operando"
      [] c = S_touch -> "touch: manca l'operando"
      [] c = S_rm -> "rm: manca l'operando"

C9_MissingOperandStep ==
    \A c \in {S_cat, S_run, S_mkdir, S_touch, S_rm} :
        (Pass /\ LineTokens' = <<c>>) =>
            /\ out' = <<Msg(MissingOperand(c), <<>>)>>
            /\ handler' = "none"
            /\ child' = "none"
            /\ UNCHANGED <<SessionDir, running, dirs, files, apps, system_apps>>

\* C9: cat, run, mkdir, touch and rm given no argument print that command's
\* missing-operand message, call no handler, and change neither the session
\* state nor the filesystem.
C9_MissingOperand == [][C9_MissingOperandStep]_vars

\* C9's case: a bare `rm`
C9_Witness ==
    /\ pc = "dispatched"
    /\ input_line = S_rm
    /\ handler = "none"
    /\ out = <<Msg("rm: manca l'operando", <<>>)>>

C10_FrameStep ==
    (Pass /\ ~(LineTokens' # <<>> /\ LineTokens'[1] = S_cd)) =>
        UNCHANGED SessionDir

\* C10: every pass whose command is not cd (a built-in, an application, an
\* unknown command, whether it succeeds or fails) leaves current_dir and
\* real_current_dir unchanged.
C10_OnlyCdMovesSession == [][C10_FrameStep]_vars

\* C10's case: `rm .` has removed the current directory, which stays current
C10_Witness ==
    /\ pc = "dispatched"
    /\ handler = "_remove_file"
    /\ current_dir = HomeDir
    /\ ~IsDir(dirs, files, real_current_dir)

\* a virtual directory in normal form: "/" alone, or "/" followed by segments
\* separated by single slashes, none of them empty, "." or ".."
Normalized(s) ==
    \/ s = <<"/">>
    \/ LET segs == split(s, "/")
       IN  /\ Len(segs) >= 2
           /\ segs[1] = <<>>
           /\ \A i \in 2..Len(segs) : segs[i] \notin {<<>>, <<".">>, <<".", ".">>}

\* C11: after any sequence of shell commands the stored current_dir is in
\* normal form: it starts with "/" and has no ".", ".." or empty segment.
C11_CurrentDirNormalized == Normalized(current_dir)

\* C19: in every reachable state of the session the cached real_current_dir
\* is the resolver's result for current_dir: initially and after every cd,
\* whether it succeeded, was rejected or did nothing.
C19_RealDirIsResolvedDir == real_current_dir = _virtual_to_real_path(current_dir)

\* C19's case: a cd has moved the session up to "/home"
C19_Witness ==
    /\ pc = "dispatched"
    /\ CdCalled
    /\ input_line = <<"c", "d", " ", ".", ".">>
    /\ current_dir = <<"/">> \o S_home
    /\ real_current_dir = PathJoin(fs_root, S_home)

\* two real paths name the same place: equal, or both walk to the same node
SamePlace(p, q) ==
    \/ p = q
    \/ LET wp == Walk(dirs, files, p)
           wq == Walk(dirs, files, q)
       IN  wp.err = "" /\ wq.err = "" /\ wp.node = wq.node

PathHandlers ==
    {"_list_directory", "_cat_file", "_make_directory", "_touch_file", "_remove_file"}

C20_SharedResolutionStep ==
    (Pass /\ handler' \in PathHandlers /\ FirstArg' # <<>>
          /\ ~(FirstArg' = <<".", ".">> /\ current_dir = <<"/">>)) =>
        SamePlace(real_path', _virtual_to_real_path(CdNewPath(FirstArg')))

\* C20: for every current directory and every non-empty path argument, the
\* real path ls, cat, mkdir, touch and rm operate on is the real path cd with
\* the same argument would test and enter.
C20_SharedResolution == [][C20_SharedResolutionStep]_vars

-----------------------------------------------------------------------------
(* The application registry: SpecRegistry *)

RunReturned == handler = "run_app"

C14_SuccessIffExitZero ==
    (RunReturned /\ launch.exited # <<>>) => (launch.success <=> launch.exited[1] = 0)

ScanReturned == handler = "scan_apps"

\* the descriptor _load_app_info yields for the directory d of apps_dir
Descriptor(d) == _load_app_info(d, apps_dir[d])

\* the descriptors of the other directories that share info's name and flag
Rivals(info) ==
    {Descriptor(d) : d \in {x \in DOMAIN apps_dir :
        /\ x # info.path.name
        /\ Descriptor(x) # NoApp
        /\ Descriptor(x).name = info.name
        /\ Descriptor(x).system_app = info.system_app}}

\* the executables of the system binaries directory registered as info's name
BinRivals(info) ==
    {f \in DOMAIN system_apps_dir :
        /\ info.system_app
        /\ system_apps_dir[f].is_file /\ system_apps_dir[f].executable
        /\ suffix(f) \in {S_dot_py, S_dot_sh}
        /\ stem(f) = info.name}

Registered(ns, info) == info.name \in DOMAIN ns /\ ns[info.name] = info

OwnNamespace(info) == IF info.system_app THEN system_apps ELSE apps

OtherNamespace(info) == IF info.system_app THEN apps ELSE system_apps

C15_Placed(info) ==
    /\ info.name \in DOMAIN OwnNamespace(info)
    /\ \/ Registered(OwnNamespace(info), info)
       \/ OwnNamespace(info)[info.name] \in Rivals(info)
       \/ OwnNamespace(info)[info.name].path.name \in BinRivals(info)
    /\ ~Registered(OtherNamespace(info), info)

\* C15: after a scan the name of every app directory that yields a descriptor
\* is in the namespace its system flag selects (user when false or absent,
\* system when true), and the entry there is that descriptor unless another
\* directory of the same name and flag, or an executable of the system
\* binaries directory of that name, replaced it; the descriptor is never in
\* the other namespace.
C15_ScanNamespaces ==
    ScanReturned =>
        \A d \in DOMAIN apps_dir : Descriptor(d) # NoApp => C15_Placed(Descriptor(d))

\* C15 as stated: every such directory is registered, in exactly one namespace
C15_Original ==
    ScanReturned =>
        \A d \in DOMAIN apps_dir :
            Descriptor(d) # NoApp =>
                /\ Registered(OwnNamespace(Descriptor(d)), Descriptor(d))
                /\ ~Registered(OtherNamespace(Descriptor(d)), Descriptor(d))

\* the descriptor file of calc and the shell script with `# System: true`
C15_Witness ==
    /\ ScanReturned
    /\ apps_dir = (S_d1 :> DirCalc) @@ (S_d2 :> DirShSystem)
    /\ DOMAIN apps = {S_calc}
    /\ apps[S_calc].path.name = S_d1
    /\ S_d2 \in DOMAIN system_apps
    /\ system_apps[S_d2].app_type = "sh"

\* C16: after a scan a directory whose descriptor file cannot be parsed is
\* registered under the directory's name, and a directory yields no
\* descriptor only when it holds neither a descriptor file nor an entry script.
C16_ParseErrorDegrades ==
    ScanReturned =>
        \A d \in DOMAIN apps_dir :
            /\ apps_dir[d].app_json = "invalid" =>
                  \E ns \in {apps, system_apps} :
                      d \in DOMAIN ns /\ ns[d].path.name = d
            /\ Descriptor(d) = NoApp => FilesOf(apps_dir[d]) = {}

\* C17: after an installation followed by a scan, every installed directory
\* is the one the user namespace holds under that name, and its files carry
\* the executable bits of the files they were copied from.
C17_InstalledCopyFound ==
    (ScanReturned /\ virtual_apps_dir # <<>>) =>
        \A n \in DOMAIN virtual_apps_dir :
            /\ n \in DOMAIN apps
            /\ apps[n].path = [dir |-> "virtual_apps_dir", name |-> n]
            /\ virtual_apps_dir[n].executable = apps_dir[apps[n].path.name].executable

-----------------------------------------------------------------------------
(* The file browser: FileManager *)

\* the rows of a standard terminal
ScreenHeight == 24

header_lines == 3

footer_lines == 2

\* the tallest file list of the small terminals of the model
MaxListHeight == 3

\* what getmaxyx() returns for the rows: the small terminals, whose file list
\* has 0..MaxListHeight rows, and the standard one
ScreenHeights ==
    {header_lines + footer_lines + h : h \in 0..MaxListHeight} \cup {ScreenHeight}

\* self.list_height as the loop sets it from the rows of the screen
list_height == screen_height - header_lines - footer_lines

\* the lines of the message of _show_error
ErrorLines == 3

\* the lines of help_text
HelpLines == 15

\* the lines of the message of _view_file for a file of no known suffix
BinaryLines == 5

\* _show_message with a message of so many lines raises curses.error: the
\* popup is taller than the screen, y is negative and curses.newwin fails
PopupRaises(lines) == screen_height < lines + 4

\* the files of the host with an x bit
Executables == {<<<<"r">>, <<"h", "o", "m", "e">>, <<"E">>>>}

\* the order of the characters of the names of the model
Alphabet ==
    <<"-", ".", "a", "b", "c", "d", "e", "f", "g", "h", "i", "j", "k", "l", "m", "n",
      "o", "p", "q", "r", "s", "t", "u", "v", "w", "x", "y", "z">>

Ord(c) == CHOOSE i \in 1..Len(Alphabet) : Alphabet[i] = c

\* a <= b for two str
RECURSIVE StrLE(_, _)
StrLE(a, b) ==
    IF a = <<>> THEN TRUE
    ELSE IF b = <<>> THEN FALSE
    ELSE IF Head(a) = Head(b) THEN StrLE(Tail(a), Tail(b))
    ELSE Ord(Head(a)) < Ord(Head(b))

\* Path.name
PathName(path) == IF path.parts = <<>> THEN <<>> ELSE path.parts[Len(path.parts)]

\* FileItem(path, virtual_path): the fields the browser reads
FileItem(path, vpath) ==
    [path |-> path, virtual_path |-> vpath, name |-> PathName(path),
     is_dir |-> IsDir(dirs, files, path),
     is_executable |-> IsFile(dirs, files, path)
                           /\ Walk(dirs, files, path).node \in Executables]

\* Path.iterdir(): the names in the directory, or the OSError it raises
Listdir(path) ==
    LET w == Walk(dirs, files, path)
        err == IF w.err # "" THEN w.err
               ELSE IF w.node \in files THEN "ENOTDIR"
               ELSE IF w.node \notin dirs THEN "ENOENT"
               ELSE IF w.node \in NoAccess THEN "EACCES" ELSE ""
    IN  [err |-> err,
         names |-> IF err # "" THEN {}
                   ELSE {n[Len(n)] : n \in {x \in dirs \cup files :
                                               x # <<>> /\ Front(x) = w.node}}]

\* os.path.join(a, b) for a relative, non-empty b
os_path_join(a, b) == IF endswith(a, <<"/">>) THEN a \o b ELSE a \o <<"/">> \o b

\* str(item.relative_to('/')) for a path under the root "/", str(item) otherwise
RelPath(item) ==
    IF startswith(PathStr(item), <<"/">>)
    THEN PathStr([root |-> "", parts |-> item.parts])
    ELSE PathStr(item)

\* the key of items.sort
SortRank(item) ==
    IF item.name = <<".", ".">> THEN 0 ELSE IF ~item.is_dir THEN 1 ELSE 0

SortLE(a, b) ==
    \/ SortRank(a) < SortRank(b)
    \/ SortRank(a) = SortRank(b) /\ StrLE(lower(a.name), lower(b.name))

\* items.sort(key=...) over items with distinct keys
Sorted(S) ==
    CHOOSE o \in Orders(S) : \A i, j \in 1..Cardinality(S) : i < j => SortLE(o[i], o[j])

\* _load_directory with the browser at (vdir, rdir); sized tells whether the
\* screen has the rows of the error popup, without which the popup cannot be
\* placed and curses.newwin raises: [current_virtual_dir, current_real_dir,
\* items, raised]
RECURSIVE _load_directory(_, _, _)
_load_directory(vdir, rdir, sized) ==
    LET is_real_fs == startswith(vdir, MountPrefix)
        parent_virtual == PathStr(PathParent(Path(vdir)))
        parent_raises == vdir # <<"/">> /\ StatRaises(dirs, files, PathParent(rdir))
        dotdot == IF vdir = <<"/">> THEN {}
                  ELSE {[FileItem(PathParent(rdir), parent_virtual)
                            EXCEPT !.name = <<".", ".">>]}
        ls == Listdir(rdir)
        entry(name) ==
            LET item == PathJoin(rdir, name)
            IN  FileItem(item, IF is_real_fs
                               THEN os_path_join(MountPrefix, RelPath(item))
                               ELSE os_path_join(vdir, name))
        here(its, exc) ==
            [current_virtual_dir |-> vdir, current_real_dir |-> rdir, items |-> its,
             raised |-> exc]
        _show_error == IF sized THEN "none" ELSE "curses.error"
    IN  IF parent_raises THEN here(<<>>, _show_error)
        ELSE IF ls.err # ""
        THEN IF is_real_fs /\ sized /\ vdir # MountPrefix
             THEN _load_directory(parent_virtual, PathParent(rdir), sized)
             ELSE here(Sorted(dotdot), _show_error)
        ELSE here(Sorted(dotdot \cup {entry(name) : name \in ls.names}), "none")

\* _move_selection(delta): the new selection
_move_selection(delta) ==
    LET moved == selection + delta
        low == IF moved < 0 THEN 0 ELSE moved
    IN  IF low >= Len(items) THEN Len(items) - 1 ELSE low

\* self.items[self.selection]: Python counts a negative index from the end
ItemAt(i) == IF i >= 0 THEN items[i + 1] ELSE items[Len(items) + i + 1]

\* self.items[self.selection] raises IndexError
IndexRaises(i) == i >= Len(items) \/ i < 0 - Len(items)

\* the footer of _draw_interface reads the selected item
DrawRaises == selection < Len(items) /\ IndexRaises(selection)

\* the keys of _handle_input, by the branch they take
Keys ==
    {"KEY_UP", "KEY_DOWN", "KEY_PPAGE", "KEY_NPAGE", "KEY_HOME", "KEY_END",
     "KEY_ENTER", "KEY_BACKSPACE", "KEY_F5", "q", "KEY_F1", "x"}

\* the virtual directories a browser is started in
StartDirs ==
    {<<"/">>, <<"/", "h", "o", "m", "e">>, <<"/", "m", "n", "t", "/", "s", "y", "s", "t", "e", "m">>, <<"/", "m", "n", "t", "/", "s", "y", "s", "t", "e", "m", "/", "p">>, <<"/", "n", "o", "p", "e">>, <<"/", "f">>}

\* the host: fs_root /r with home, mnt/system and a directory x in it, a file
\* f, an empty fs_root /e, and the unreadable /p; in home a directory "-" and
\* the files "E" and "a"
BrowserDirs ==
    {<<>>, <<<<"r">>>>, <<<<"r">>, S_home>>, <<<<"r">>, S_home, <<"-">>>>, <<<<"r">>, <<"m", "n", "t">>>>,
     <<<<"r">>, <<"m", "n", "t">>, <<"s", "y", "s", "t", "e", "m">>>>, <<<<"r">>, <<"m", "n", "t">>, <<"s", "y", "s", "t", "e", "m">>, <<"x">>>>,
     <<<<"e">>>>, <<<<"p">>>>}

BrowserFiles ==
    {<<<<"r">>, <<"f">>>>, <<<<"r">>, S_home, <<"E">>>>, <<<<"r">>, S_home, <<"a">>>>}

InitBrowser ==
    /\ fs_root \in {Path(<<"/", "r">>), Path(<<"/", "e">>)}
    /\ dirs = BrowserDirs
    /\ files = BrowserFiles
    /\ current_dir = <<"/">>
    /\ real_current_dir = fs_root
    /\ running = FALSE
    /\ apps = <<>>
    /\ system_apps = <<>>
    /\ input_line = <<>>
    /\ cmd_parts = <<>>
    /\ in_quotes = FALSE
    /\ out = <<>>
    /\ virtual_path = <<>>
    /\ real_path = NoPath
    /\ child = "none"
    /\ term = "untouched"
    /\ pc = "input"
    /\ IdleRegistry
    /\ handler = "__init__"
    /\ current_virtual_dir \in StartDirs
    /\ current_real_dir = FileManager_virtual_to_real_path(current_virtual_dir, fs_root)
    /\ items = <<>>
    /\ selection = 0
    /\ offset = 0
    /\ screen_height = 0
    /\ _is_running = FALSE
    /\ raised = "none"
    /\ IdleInitializer

\* what the browser leaves alone
BrowserFrame ==
    UNCHANGED <<fs_root, current_dir, real_current_dir, running, dirs, files, apps,
                system_apps, input_line, cmd_parts, in_quotes, out, virtual_path,
                real_path, registry_vars, initializer_vars>>

\* no child was run from the browser in this pass
NoExec == child' = "none" /\ term' = "untouched"

\* the browser moves to what _load_directory returned
Loaded(r) ==
    /\ current_virtual_dir' = r.current_virtual_dir
    /\ current_real_dir' = r.current_real_dir
    /\ items' = r.items
    /\ selection' = 0
    /\ offset' = 0
    /\ raised' = r.raised

\* _main_loop up to `while self._is_running`
StartLoop ==
    /\ handler = "__init__"
    /\ handler' = "_main_loop"
    /\ _is_running' = TRUE
    /\ pc' = "draw"
    /\ Loaded(_load_directory(current_virtual_dir, current_real_dir,
                              ~PopupRaises(ErrorLines)))
    /\ UNCHANGED <<screen_height, child, term>>
    /\ BrowserFrame

\* a variant of _draw_file_list that never scrolls down to the selection
_draw_file_list_no_scroll_down(height) ==
    IF items = <<>> THEN offset
    ELSE LET up == IF selection < offset THEN selection ELSE offset
             max_offset == IF Len(items) - height > 0 THEN Len(items) - height ELSE 0
         IN  IF up < max_offset THEN up ELSE max_offset

\* _draw_file_list with a list of so many rows: the new offset
_draw_file_list(height) ==
    IF items = <<>> THEN offset
    ELSE LET up == IF selection < offset THEN selection ELSE offset
             down == IF selection >= up + height THEN selection - height + 1 ELSE up
             max_offset == IF Len(items) - height > 0 THEN Len(items) - height ELSE 0
         IN  IF down < max_offset THEN down ELSE max_offset

\* what happens while _execute_file runs: subprocess.run returns, raises
\* OSError or is interrupted; each input() returns a line, raises EOFError or
\* is interrupted
Waits == {"line", "EOFError", "KeyboardInterrupt"}

ExecEnvs ==
    [run : {"exited", "OSError", "KeyboardInterrupt"}, first_input : Waits,
     second_input : Waits]

\* _execute_file: curses.endwin(), the try and its `except Exception`, then
\* touchwin() and refresh() when no exception is left
_execute_file(e) ==
    LET in_try == IF e.run # "exited" THEN e.run
                  ELSE IF e.first_input = "line" THEN "none" ELSE e.first_input
        left == IF in_try \in {"none", "KeyboardInterrupt"} THEN in_try
                ELSE IF e.second_input = "line" THEN "none" ELSE e.second_input
    IN  [child |-> e.run,
         term |-> IF left = "none" THEN "resumed" ELSE "suspended",
         raised |-> left]

\* _action_open_item
_action_open_item ==
    IF selection >= Len(items)
    THEN /\ UNCHANGED <<current_virtual_dir, current_real_dir, items, selection,
                        offset, raised>>
         /\ NoExec
    ELSE IF IndexRaises(selection)
    THEN /\ raised' = "IndexError"
         /\ UNCHANGED <<current_virtual_dir, current_real_dir, items, selection, offset>>
         /\ NoExec
    ELSE IF ItemAt(selection).is_dir
    THEN /\ Loaded(_load_directory(ItemAt(selection).virtual_path,
                                   ItemAt(selection).path, ~PopupRaises(ErrorLines)))
         /\ NoExec
    ELSE IF ItemAt(selection).is_executable
    THEN \E e \in ExecEnvs :
            /\ child' = _execute_file(e).child
            /\ term' = _execute_file(e).term
            /\ raised' = _execute_file(e).raised
            /\ UNCHANGED <<current_virtual_dir, current_real_dir, items, selection,
                           offset>>
    ELSE /\ raised' = IF PopupRaises(BinaryLines) THEN "curses.error" ELSE "none"
         /\ UNCHANGED <<current_virtual_dir, current_real_dir, items, selection, offset>>
         /\ NoExec

\* _action_go_parent
_action_go_parent ==
    IF current_virtual_dir = <<"/">>
    THEN UNCHANGED <<current_virtual_dir, current_real_dir, items, selection, offset,
                     raised>>
    ELSE LET str_parent == PathStr(PathParent(Path(current_virtual_dir)))
             parent_virtual == IF str_parent = <<>> THEN <<"/">> ELSE str_parent
         IN  Loaded(_load_directory(parent_virtual, PathParent(current_real_dir),
                                    ~PopupRaises(ErrorLines)))

\* _handle_input with getch() returning key
_handle_input(key) ==
    /\ handler' = IF key \in {"KEY_UP", "KEY_DOWN", "KEY_PPAGE", "KEY_NPAGE",
                              "KEY_HOME", "KEY_END"} THEN "_move_selection"
                  ELSE IF key = "KEY_ENTER" THEN "_action_open_item"
                  ELSE IF key = "KEY_BACKSPACE" THEN "_action_go_parent"
                  ELSE IF key = "KEY_F5" THEN "_load_directory"
                  ELSE IF key = "q" THEN "quit"
                  ELSE IF key = "KEY_F1" THEN "_show_help" ELSE "none"
    /\ _is_running' = (key # "q")
    /\ IF key \in {"KEY_UP", "KEY_DOWN", "KEY_PPAGE", "KEY_NPAGE", "KEY_HOME", "KEY_END"}
       THEN /\ selection' = _move_selection(
                   IF key = "KEY_UP" THEN 0 - 1
                   ELSE IF key = "KEY_DOWN" THEN 1
                   ELSE IF key = "KEY_PPAGE" THEN 0 - list_height
                   ELSE IF key = "KEY_NPAGE" THEN list_height
                   ELSE IF key = "KEY_HOME" THEN 0 - Len(items) ELSE Len(items))
            /\ UNCHANGED <<current_virtual_dir, current_real_dir, items, offset, raised>>
            /\ NoExec
       ELSE IF key = "KEY_ENTER" THEN _action_open_item
       ELSE IF key = "KEY_BACKSPACE" THEN _action_go_parent /\ NoExec
       ELSE IF key = "KEY_F5"
       THEN /\ Loaded(_load_directory(current_virtual_dir, current_real_dir,
                                      ~PopupRaises(ErrorLines)))
            /\ NoExec
       ELSE IF key = "KEY_F1"
       THEN /\ raised' = IF PopupRaises(HelpLines) THEN "curses.error" ELSE "none"
            /\ UNCHANGED <<current_virtual_dir, current_real_dir, items, selection,
                           offset>>
            /\ NoExec
       ELSE /\ UNCHANGED <<current_virtual_dir, current_real_dir, items, selection,
                           offset, raised>>
            /\ NoExec

\* the first half of a pass of `while self._is_running`: getmaxyx() and
\* _draw_interface, whose footer raises when the selected item cannot be read
LoopDraw ==
    /\ handler # "__init__"
    /\ _is_running
    /\ raised = "none"
    /\ pc = "draw"
    /\ handler' = "_draw_interface"
    /\ \E rows \in ScreenHeights :
          /\ screen_height' = rows
          /\ offset' = _draw_file_list(rows - header_lines - footer_lines)
    /\ IF DrawRaises
       THEN raised' = "IndexError" /\ pc' = pc
       ELSE raised' = "none" /\ pc' = "getch"
    /\ NoExec
    /\ UNCHANGED <<current_virtual_dir, current_real_dir, items, selection, _is_running>>
    /\ BrowserFrame

\* the second half: _handle_input; an exception leaves the loop
LoopInput ==
    /\ handler # "__init__"
    /\ _is_running
    /\ raised = "none"
    /\ pc = "getch"
    /\ pc' = "draw"
    /\ \E key \in Keys : _handle_input(key)
    /\ UNCHANGED screen_height
    /\ BrowserFrame

NextBrowser == StartLoop \/ LoopDraw \/ LoopInput

SpecBrowser == InitBrowser /\ [][NextBrowser]_vars

\* path is fs_root or below it
WithinFsRoot(path) ==
    /\ path.root = fs_root.root
    /\ Len(path.parts) >= Len(fs_root.parts)
    /\ SubSeq(path.parts, 1, Len(fs_root.parts)) = fs_root.parts

\* C12: in a started browser whose current virtual directory does not start
\* with '/mnt/system', the current real directory is fs_root or below it.
C12_BrowserWithinFsRoot ==
    (handler # "__init__" /\ ~startswith(current_virtual_dir, MountPrefix)) =>
        WithinFsRoot(current_real_dir)

\* C18: no exception leaves a pass of the browser loop, and the loop stops
\* running only on a quit key.
C18_LoopEndsOnlyOnQuit ==
    handler \notin {"__init__", "_main_loop"} =>
        /\ raised = "none"
        /\ ~_is_running => handler = "quit"

-----------------------------------------------------------------------------
(* The session, continued *)

\* the segments of the directory current_dir shows: s without its empty and
\* '.' segments, each '..' taking the segment before it
ShownParts(s) == RefNormalize(split(s, "/"), 0)

C21_CdUpStep ==
    (Pass /\ handler' = "_change_directory" /\ FirstArg' = <<".", ".">>) =>
        IF ShownParts(current_dir) = <<>>
        THEN UNCHANGED SessionDir
        ELSE out' = <<>> =>
                real_current_dir' =
                    _virtual_to_real_path(
                        <<"/">> \o join("/", Front(ShownParts(current_dir))))

\* C21: a successful `cd ..` leaves real_current_dir at the resolution of the
\* lexical parent of the normalized previous current_dir, and `cd ..` at the
\* virtual root leaves current_dir and real_current_dir unchanged.
C21_CdUpMovesOneLevel == [][C21_CdUpStep]_vars
\* C30: real_current_dir denotes an existing directory in every state of the
\* session.
C30_CurrentDirExists == IsDir(dirs, files, real_current_dir)

-----------------------------------------------------------------------------
(* The two resolvers: SpecResolvers *)

\* C29: for every virtual path and every fs_root, the browser's resolver
\* returns the real path the shell's resolver returns.
C29_ResolversAgree == handler = "FileManager.__init__" => current_real_dir = real_path

\* both resolved a path with '..' and empty segments below fs_root
C29_Witness ==
    /\ handler = "FileManager.__init__"
    /\ current_virtual_dir = <<"/", "a", "/", ".", ".", "/", "/", "b">>
    /\ current_real_dir = [root |-> fs_root.root, parts |-> Append(fs_root.parts, <<"b">>)]
    /\ real_path = current_real_dir

-----------------------------------------------------------------------------
(* The file browser, continued *)

\* C23: in a started browser the selection is never negative, is at most
\* len(items) - 1 when the listing is not empty, and is 0 when it is empty.
C23_SelectionInRange ==
    handler # "__init__" =>
        /\ selection >= 0
        /\ items # <<>> => selection <= Len(items) - 1
        /\ items = <<>> => selection = 0

\* C26: a started browser is never left in a directory under '/mnt/system',
\* other than the mount root, that cannot be opened: a load of such a
\* directory ends in its parent.
C26_UnopenableLeavesToParent ==
    (/\ handler # "__init__"
     /\ startswith(current_virtual_dir, MountPrefix)
     /\ current_virtual_dir # MountPrefix) =>
        Listdir(current_real_dir).err = ""

\* the group of an entry in the listing: the parent entry, directories, files
Group(item) == IF item.name = <<".", ".">> THEN 0 ELSE IF item.is_dir THEN 1 ELSE 2

\* C22: in a started browser the listing has the parent entry '..' at index 0
\* whenever the current virtual directory is not '/', then the directories,
\* then the files, each group in case-insensitive name order.
C22_ListingOrder ==
    handler # "__init__" =>
        /\ current_virtual_dir # <<"/">> =>
              items # <<>> /\ items[1].name = <<".", ".">>
        /\ \A i, j \in 1..Len(items) :
              i < j =>
                  \/ Group(items[i]) < Group(items[j])
                  \/ /\ Group(items[i]) = Group(items[j])
                     /\ StrLE(lower(items[i].name), lower(items[j].name))

\* C24: each time the file list is drawn with a non-empty listing and a
\* positive list height, 0 <= offset <= selection < offset + list_height
\* holds afterwards.
C24_SelectionVisible ==
    (pc = "getch" /\ items # <<>> /\ list_height > 0) =>
        /\ 0 <= offset
        /\ offset <= selection
        /\ selection < offset + list_height

\* the list of /home, two rows high, drawn after the selection went to the end
C24_Witness ==
    /\ pc = "getch"
    /\ Len(items) = 4
    /\ list_height = 2
    /\ selection = 3
    /\ offset = 2

\* the list drawn again on a taller screen, where max_offset pulls the offset
\* back
C24_WitnessClamped ==
    /\ pc = "getch"
    /\ Len(items) = 4
    /\ list_height = 3
    /\ selection = 3
    /\ offset = 1

\* C25: when the browser has run an executable entry, screen-drawing mode was
\* suspended and is resumed again, whichever way _execute_file was left.
C25_ResumedOnEveryExit ==
    (handler = "_action_open_item" /\ child # "none") => term = "resumed"

-----------------------------------------------------------------------------
(* The type tag and the colour of a FileItem: SpecFileItem *)

\* the suffix lists of _get_type
TextSuffixes ==
    {<<".", "t", "x", "t">>, <<".", "m", "d">>, <<".", "p", "y">>, <<".", "j", "s">>,
     <<".", "h", "t", "m", "l">>, <<".", "c", "s", "s">>, <<".", "j", "s", "o", "n">>,
     <<".", "x", "m", "l">>, <<".", "s", "h">>, <<".", "c">>, <<".", "c", "p", "p">>,
     <<".", "h">>, <<".", "j", "a", "v", "a">>, <<".", "l", "o", "g">>,
     <<".", "c", "o", "n", "f">>}

ImageSuffixes ==
    {<<".", "j", "p", "g">>, <<".", "j", "p", "e", "g">>, <<".", "p", "n", "g">>,
     <<".", "g", "i", "f">>, <<".", "b", "m", "p">>, <<".", "s", "v", "g">>,
     <<".", "w", "e", "b", "p">>}

AudioSuffixes ==
    {<<".", "m", "p", "3">>, <<".", "w", "a", "v">>, <<".", "o", "g", "g">>,
     <<".", "f", "l", "a", "c">>, <<".", "a", "a", "c">>}

VideoSuffixes ==
    {<<".", "m", "p", "4">>, <<".", "m", "k", "v">>, <<".", "a", "v", "i">>,
     <<".", "m", "o", "v">>, <<".", "w", "e", "b", "m">>}

ArchiveSuffixes ==
    {<<".", "z", "i", "p">>, <<".", "t", "a", "r">>, <<".", "g", "z">>,
     <<".", "b", "z", "2">>, <<".", "x", "z">>, <<".", "r", "a", "r">>, <<".", "7", "z">>}

BinarySuffixes ==
    {<<".", "e", "x", "e">>, <<".", "d", "l", "l">>, <<".", "s", "o">>,
     <<".", "b", "i", "n">>}

\* what an entry of a directory is on disk
EntryKinds == {"dir", "file", "fifo", "link_to_dir", "link_to_file", "link_broken"}

EntryNames ==
    {<<"a">>, <<"a", ".", "t", "x", "t">>, <<"a", ".", "T", "A", "R">>,
     <<"a", ".", "p", "n", "g">>, <<"a", ".", "m", "p", "3">>,
     <<"a", ".", "m", "p", "4">>, <<"a", ".", "e", "x", "e">>,
     <<"a", ".", "d", "a", "t">>}

\* the entries: kind, name and whether os.access(path, os.X_OK) holds, which
\* follows a link and fails on a broken one
DiskEntries ==
    {e \in [kind : EntryKinds, x_ok : BOOLEAN, name : EntryNames] :
        e.kind = "link_broken" => ~e.x_ok}

\* Path.is_dir(), Path.is_file() and Path.is_symlink(); the first two follow
\* a link
path_is_dir(e) == e.kind \in {"dir", "link_to_dir"}

path_is_file(e) == e.kind \in {"file", "link_to_file"}

path_is_symlink(e) == e.kind \in {"link_to_dir", "link_to_file", "link_broken"}

\* FileItem._get_type
_get_type(e) ==
    IF path_is_dir(e) THEN "DIRECTORY"
    ELSE IF path_is_symlink(e) THEN "LINK"
    ELSE IF e.x_ok THEN "EXECUTABLE"
    ELSE IF lower(suffix(e.name)) \in TextSuffixes THEN "TEXT"
    ELSE IF lower(suffix(e.name)) \in ImageSuffixes THEN "IMAGE"
    ELSE IF lower(suffix(e.name)) \in AudioSuffixes THEN "AUDIO"
    ELSE IF lower(suffix(e.name)) \in VideoSuffixes THEN "VIDEO"
    ELSE IF lower(suffix(e.name)) \in ArchiveSuffixes THEN "ARCHIVE"
    ELSE IF lower(suffix(e.name)) \in BinarySuffixes THEN "BINARY"
    ELSE "OTHER"

\* FileItem.get_color
get_color(item) ==
    IF item.is_dir THEN 1
    ELSE IF item.is_executable THEN 2
    ELSE IF item.type = "TEXT" THEN 0
    ELSE IF item.type = "IMAGE" THEN 3
    ELSE IF item.type \in {"AUDIO", "VIDEO"} THEN 4
    ELSE IF item.type = "ARCHIVE" THEN 5
    ELSE IF item.type = "LINK" THEN 6
    ELSE 0

\* FileItem(path, virtual_path) for the entry e, with the colour it is drawn in
TypedItem(e) ==
    LET item == [name |-> e.name, type |-> _get_type(e), is_dir |-> path_is_dir(e),
                 is_executable |-> IF path_is_file(e) THEN e.x_ok ELSE FALSE]
    IN  [name |-> item.name, type |-> item.type, is_dir |-> item.is_dir,
         is_executable |-> item.is_executable, color |-> get_color(item)]

\* two entries of a directory
InitFileItem ==
    /\ fs_root = Path(<<"/", "r">>)
    /\ virtual_path = <<>>
    /\ real_path = NoPath
    /\ input_line = <<>>
    /\ cmd_parts = <<>>
    /\ in_quotes = FALSE
    /\ handler = "none"
    /\ Idle
    /\ IdleRegistry
    /\ current_virtual_dir = <<"/">>
    /\ current_real_dir = fs_root
    /\ items \in {<<a, b>> : a, b \in DiskEntries}
    /\ selection = 0
    /\ offset = 0
    /\ screen_height = 0
    /\ _is_running = FALSE
    /\ raised = "none"
    /\ IdleInitializer

\* a FileItem is made of each, as _load_directory does
MakeFileItems ==
    /\ handler = "none"
    /\ handler' = "FileItem.__init__"
    /\ items' = [i \in 1..Len(items) |-> TypedItem(items[i])]
    /\ UNCHANGED <<fs_root, current_dir, real_current_dir, running, dirs, files,
                   apps, system_apps, input_line, cmd_parts, in_quotes, out,
                   virtual_path, real_path, child, term, pc, registry_vars,
                   current_virtual_dir, current_real_dir, selection, offset,
                   screen_height, _is_running, raised, initializer_vars>>

SpecFileItem == InitFileItem /\ [][MakeFileItems]_vars

\* C27: the colour of an entry is a one-to-one function of its type tag: two
\* entries have the same colour exactly when they have the same type tag.
C27_ColourOneToOne ==
    handler = "FileItem.__init__" =>
        \A i, j \in 1..Len(items) :
            (items[i].type = items[j].type) <=> (items[i].color = items[j].color)

\* the first half alone: entries with the same type tag have the same colour
C27_SameTagSameColour ==
    handler = "FileItem.__init__" =>
        \A i, j \in 1..Len(items) :
            items[i].type = items[j].type => items[i].color = items[j].color

-----------------------------------------------------------------------------
(* The system initializer: SpecInitializer *)

\* the components of register_default_components
ComponentNames == {"filesystem", "shell", "graphics"}

\* the longest dependency list of a registration
MaxDeps == 2

\* the dependency lists: distinct names, registered or not, the component
\* itself among them
DepLists ==
    {d \in SeqsUpTo(ComponentNames, MaxDeps) :
        \A i, j \in 1..Len(d) : i # j => d[i] # d[j]}

\* the keys of self.components
registered == {components[i].name : i \in 1..Len(components)}

\* what the system initializer leaves alone
InitializerFrame ==
    UNCHANGED <<fs_root, current_dir, real_current_dir, running, dirs, files, apps,
                system_apps, input_line, cmd_parts, in_quotes, handler, out,
                virtual_path, real_path, child, term, pc, registry_vars, browser_vars>>

\* register_component(name, initializer_func, dependencies) for a name not
\* yet registered; an initializer function is what it returns
register_component(name, initializer_func, deps) ==
    /\ init_result = "none"
    /\ name \notin registered
    /\ components' =
           Append(components, [name |-> name, initializer_func |-> initializer_func])
    /\ dependencies' = Put(dependencies, name, deps)
    /\ UNCHANGED <<initialized, init_calls, init_result>>
    /\ InitializerFrame

\* visit(node) of _sort_dependencies on the lists and sets st; ok is what it
\* returns
RECURSIVE visit(_, _)
RECURSIVE VisitDeps(_, _, _)
visit(node, st) ==
    IF node \in st.temp_visited THEN [st EXCEPT !.ok = FALSE]
    ELSE IF node \in st.visited THEN st
    ELSE LET after == VisitDeps(Get(dependencies, node, <<>>), 1,
                                [st EXCEPT !.temp_visited = @ \cup {node}])
         IN  IF ~after.ok THEN after
             ELSE [after EXCEPT !.temp_visited = @ \ {node},
                                !.visited = @ \cup {node},
                                !.result = Append(@, node)]

\* the loop of visit over the dependencies of a node
VisitDeps(deps, i, st) ==
    IF i > Len(deps) \/ ~st.ok THEN st
    ELSE IF deps[i] \notin registered THEN VisitDeps(deps, i + 1, st)
    ELSE VisitDeps(deps, i + 1, visit(deps[i], st))

\* `for node in self.components` of _sort_dependencies
RECURSIVE VisitAll(_, _)
VisitAll(i, st) ==
    IF i > Len(components) \/ ~st.ok THEN st
    ELSE VisitAll(i + 1, IF components[i].name \in st.visited THEN st
                         ELSE visit(components[i].name, st))

\* list(reversed(s))
reversed(s) == [i \in 1..Len(s) |-> s[Len(s) + 1 - i]]

\* _sort_dependencies: ok is FALSE when it returns None
_sort_dependencies ==
    LET st == VisitAll(1, [result |-> <<>>, visited |-> {}, temp_visited |-> {},
                           ok |-> TRUE])
    IN  [ok |-> st.ok, init_order |-> IF st.ok THEN reversed(st.result) ELSE <<>>]

\* _initialize_component(name) with `done` initialized: what it returns, whether
\* it called the initializer function, and self.initialized afterwards
_initialize_component(name, done) ==
    LET deps == Get(dependencies, name, <<>>)
        init_func ==
            (CHOOSE i \in 1..Len(components) : components[i].name = name)
        result == components[init_func].initializer_func
    IN  IF name \in done THEN [ok |-> TRUE, called |-> FALSE, initialized |-> done]
        ELSE IF \E i \in 1..Len(deps) : deps[i] \notin done
        THEN [ok |-> FALSE, called |-> FALSE, initialized |-> done]
        ELSE [ok |-> result, called |-> TRUE,
              initialized |-> IF result THEN done \cup {name} ELSE done]

\* `for component_name in init_order` of initialize
RECURSIVE InitializeLoop(_, _, _, _)
InitializeLoop(init_order, i, done, calls) ==
    IF i > Len(init_order)
    THEN [init_result |-> "True", initialized |-> done, init_calls |-> calls]
    ELSE IF init_order[i] \in done THEN InitializeLoop(init_order, i + 1, done, calls)
    ELSE LET r == _initialize_component(init_order[i], done)
             called == IF r.called THEN Append(calls, init_order[i]) ELSE calls
         IN  IF r.ok THEN InitializeLoop(init_order, i + 1, r.initialized, called)
             ELSE [init_result |-> "False", initialized |-> r.initialized,
                   init_calls |-> called]

\* initialize()
initialize ==
    /\ init_result = "none"
    /\ LET sorted == _sort_dependencies
           r == IF sorted.ok
                THEN InitializeLoop(sorted.init_order, 1, initialized, init_calls)
                ELSE [init_result |-> "False", initialized |-> initialized,
                      init_calls |-> init_calls]
       IN  /\ init_result' = r.init_result
           /\ initialized' = r.initialized
           /\ init_calls' = r.init_calls
    /\ UNCHANGED <<components, dependencies>>
    /\ InitializerFrame

InitInitializer ==
    /\ fs_root = Path(<<"/", "r">>)
    /\ virtual_path = <<>>
    /\ real_path = NoPath
    /\ input_line = <<>>
    /\ cmd_parts = <<>>
    /\ in_quotes = FALSE
    /\ handler = "none"
    /\ Idle
    /\ IdleRegistry
    /\ IdleBrowser
    /\ IdleInitializer

RegisterComponent ==
    \E name \in ComponentNames, initializer_func \in BOOLEAN, deps \in DepLists :
        register_component(name, initializer_func, deps)

NextInitializer == RegisterComponent \/ initialize

SpecInitializer == InitInitializer /\ [][NextInitializer]_vars

\* the names in the dependency list of a component
DepsOf(name) == {dependencies[name][i] : i \in 1..Len(dependencies[name])}

\* the dependency lists name registered components only and have no cycle:
\* the components can be put in an order with every dependency first
Acyclic ==
    \E o \in Orders(registered) :
        \A i \in 1..Len(o) : \A d \in DepsOf(o[i]) : \E j \in 1..(i - 1) : o[j] = d

\* every initializer function succeeds
AllSucceed == \A i \in 1..Len(components) : components[i].initializer_func

\* C28: when initialize has returned for an acyclic dependency graph over the
\* registered components whose initializer functions all succeed, it returned
\* True and every component was initialized exactly once, after all of its
\* dependencies.
C28_InitializedInDependencyOrder ==
    (init_result # "none" /\ AllSucceed /\ Acyclic) =>
        /\ init_result = "True"
        /\ \A name \in registered :
              Cardinality({i \in 1..Len(init_calls) : init_calls[i] = name}) = 1
        /\ \A i \in 1..Len(init_calls) :
              \A d \in DepsOf(init_calls[i]) : \E j \in 1..(i - 1) : init_calls[j] = d

\* the default registration: filesystem, shell, and graphics depending on shell
DefaultRegistration ==
    /\ components = <<[name |-> "filesystem", initializer_func |-> TRUE],
                      [name |-> "shell", initializer_func |-> TRUE],
                      [name |-> "graphics", initializer_func |-> TRUE]>>
    /\ dependencies = [name \in ComponentNames |->
                          IF name = "graphics" THEN <<"shell">> ELSE <<>>]

\* C28 for the default registration alone: initialize returns True
C28_DefaultRegistrationSucceeds ==
    (init_result # "none" /\ DefaultRegistration) => init_result = "True"

============================================================================
